---- MODULE Spec2Model ----
(***************************************************************************)
(* The stagnant-task detector of PulseTracker (useStagnantTaskDetector in  *)
(* src/src/hooks/useSlackWebhook.js) together with the ClickUp data hook   *)
(* whose state and refresh function it is given                            *)
(* (src/src/hooks/useClickUpData.js).                                      *)
(*                                                                         *)
(* Text is a sequence of one-character strings, so that toLowerCase and    *)
(* includes are computed.  Time is in milliseconds.                        *)
(***************************************************************************)
EXTENDS Integers, Sequences, FiniteSets, TLC

VARIABLES
    now,              \* the wall clock, new Date(), in ms
    alertsEnabled,    \* prop alertsEnabled
    slackWebhookUrl,  \* prop slackWebhookUrl: TRUE when a URL is configured, FALSE for ''
    thresholdHours,   \* prop thresholdHours
    thresholdUnit,    \* prop thresholdUnit: "hours" or "seconds"
    clickUpData,      \* prop clickUpData: the state of useClickUpData, [present, tasks, loading]
    otherFetches,     \* fetchClickUpData calls in flight that no detector cycle awaits
    stagnantTasks,    \* useState stagnantTasks
    isMonitoring,     \* useState isMonitoring
    lastCheck,        \* useState lastCheck: [set, at]
    initialTimeout,   \* the 5 s timeout of the periodic effect is pending
    interval,         \* the interval of the periodic effect is set
    cycles,           \* interval callbacks waiting on their refresh, in the order they started
    batches,          \* alert batches (the async callback of line 323), by slot
    detected,         \* the last call of the exported detectStagnantTasks: [called, result]
    limits,           \* the sizes of a run: [tasks, cycles, stamp, observe], fixed by the initial state
    episodes,         \* history: per task id, how often it entered the tracked set
    alerts,           \* history: per task id, how many alerts were scheduled for it
    streak,           \* history: per task id, the consecutive checks that detected it
    streakAlerts,     \* history: per task id, the alerts scheduled during its streak
    args,             \* the arguments of a call of one of the metric calculators
    returned,         \* what that call returned: [done, value]
    teamMetrics,      \* useTeamMetrics: its props, its state and its fetches in flight
    healthAlert       \* useTeamHealthAlert: its props, its ref and the alerts it sent

vars == <<now, alertsEnabled, slackWebhookUrl, thresholdHours, thresholdUnit, clickUpData,
          otherFetches, stagnantTasks, isMonitoring, lastCheck, initialTimeout, interval,
          cycles, batches, detected, limits, episodes, alerts, streak, streakAlerts,
          args, returned, teamMetrics, healthAlert>>

-----------------------------------------------------------------------------
(* Bounds *)

\* Spec: the task ids of the workspace, the interval callbacks that wait on their
\* refresh at one time, the alert batches alive at one time
NumTasks == 1
MaxCycles == 1
MaxBatches == 1
\* SpecWide: the same, with room for callbacks and batches to overlap
WideTasks == 1
WideCycles == 2
WideBatches == 2
\* SpecBatch: the same, with room for a batch of several tasks
BatchTasks == 2
BatchCycles == 1
BatchBatches == 1
\* SpecBatch: every fetched task carries the stamp 0
BatchStamp == 0
\* the clock advances this many times, by one threshold unit each time
MaxTicks == 2
\* the latest update stamp a fetched task carries, in threshold units
MaxStamp == 1
\* fetches in flight that were started outside the detector (mount effect, Refresh button)
MaxOtherFetches == 1
\* the history counters episodes and alerts saturate here
MaxEpisodes == 2
\* the history counter streak saturates here
MaxStreak == 6

-----------------------------------------------------------------------------
(* Text *)

UpperChars == <<"A","B","C","D","E","F","G","H","I","J","K","L","M",
                "N","O","P","Q","R","S","T","U","V","W","X","Y","Z">>
LowerChars == <<"a","b","c","d","e","f","g","h","i","j","k","l","m",
                "n","o","p","q","r","s","t","u","v","w","x","y","z">>

\* String.prototype.toLowerCase on one character
ToLowerChar(c) ==
    IF \E i \in 1..26 : UpperChars[i] = c
    THEN LowerChars[CHOOSE i \in 1..26 : UpperChars[i] = c]
    ELSE c

\* The texts of the model, and the characters of each.  A text is held by its
\* name (a string) and read through this table.
Chars(s) ==
    CASE s = ""            -> <<>>
      [] s = "In Progress" -> <<"I","n"," ","P","r","o","g","r","e","s","s">>
      [] s = "complete"    -> <<"c","o","m","p","l","e","t","e">>
      [] s = "DOING"       -> <<"D","O","I","N","G">>
      [] s = "Active"      -> <<"A","c","t","i","v","e">>
      [] s = "Not Started" -> <<"N","o","t"," ","S","t","a","r","t","e","d">>
      [] s = "to do"       -> <<"t","o"," ","d","o">>
      [] s = "progres"     -> <<"p","r","o","g","r","e","s">>
      [] s = "blocked"     -> <<"b","l","o","c","k","e","d">>
      [] s = "Blocked"     -> <<"B","l","o","c","k","e","d">>
      [] s = "Waiting on Review" ->
             <<"W","a","i","t","i","n","g"," ","o","n"," ","R","e","v","i","e","w">>
      [] s = "PENDING QA"  -> <<"P","E","N","D","I","N","G"," ","Q","A">>
      [] s = "in review"   -> <<"i","n"," ","r","e","v","i","e","w">>
      [] s = "I am STUCK"  -> <<"I"," ","a","m"," ","S","T","U","C","K">>
      [] s = "lgtm"        -> <<"l","g","t","m">>
      [] s = "Done"        -> <<"D","o","n","e">>
      [] s = "Closed"      -> <<"C","l","o","s","e","d">>
      [] s = "COMPLETED"   -> <<"C","O","M","P","L","E","T","E","D">>
      [] s = "deployed"    -> <<"d","e","p","l","o","y","e","d">>
      [] s = "finished"    -> <<"f","i","n","i","s","h","e","d">>
      [] s = "accepted"    -> <<"a","c","c","e","p","t","e","d">>
      [] s = "not done"    -> <<"n","o","t"," ","d","o","n","e">>

\* String.prototype.toLowerCase
toLowerCase(s) == LET cs == Chars(s) IN [i \in 1..Len(cs) |-> ToLowerChar(cs[i])]

\* String.prototype.includes
includes(s, sub) ==
    \E i \in 1..(Len(s) - Len(sub) + 1) : SubSeq(s, i, i + Len(sub) - 1) = sub

W_progress == <<"p","r","o","g","r","e","s","s">>
W_doing    == <<"d","o","i","n","g">>
W_active   == <<"a","c","t","i","v","e">>
W_started  == <<"s","t","a","r","t","e","d">>

-----------------------------------------------------------------------------
(* detectStagnantTasks *)

\* a JavaScript number: a value, or NaN
Num(v) == [nan |-> FALSE, v |-> v]
NaN == [nan |-> TRUE, v |-> 0]

\* task.date_updated when the field is missing
NoDate == [missing |-> TRUE, ms |-> 0]
DateField(ms) == [missing |-> FALSE, ms |-> ms]

\* parseInt(task.date_updated): the timestamp, NaN when the field is missing
parseInt(x) == IF x.missing THEN NaN ELSE Num(x.ms)

\* now - lastUpdated on Dates: NaN when lastUpdated is an Invalid Date
DateDiff(t, d) == IF d.nan THEN NaN ELSE Num(t - d.v)

\* x > y on numbers: false when x is NaN
Greater(x, y) == IF x.nan THEN FALSE ELSE x.v > y

\* thresholdMs (lines 198-200)
ThresholdMsHoursAlways(hours, unit) == hours * 60 * 60 * 1000
thresholdMs(hours, unit) ==
    IF unit = "seconds" THEN hours * 1000 ELSE hours * 60 * 60 * 1000

\* task.status: a string (kind "string", in text), or an object (kind "object")
\* with the fields status and name, or missing (kind "missing").  A missing
\* or empty field is "": both are falsy.
StatusString(s)    == [kind |-> "string", text |-> s, status |-> "", name |-> ""]
StatusObject(s, n) == [kind |-> "object", text |-> "", status |-> s, name |-> n]
StatusMissing      == [kind |-> "missing", text |-> "", status |-> "", name |-> ""]

\* statusText (lines 205-212)
statusText(task) ==
    IF task.status.kind = "string" THEN toLowerCase(task.status.text)
    ELSE IF task.status.kind = "object" /\ task.status.status # ""
         THEN toLowerCase(task.status.status)
    ELSE IF task.status.kind = "object" /\ task.status.name # ""
         THEN toLowerCase(task.status.name)
    ELSE <<>>

\* isInProgress (lines 214-218)
isInProgressNoStarted(task) ==
    LET st == statusText(task) IN
    /\ st # <<>>
    /\ \/ includes(st, W_progress)
       \/ includes(st, W_doing)
       \/ includes(st, W_active)
isInProgress(task) ==
    LET st == statusText(task) IN
    /\ st # <<>>
    /\ \/ includes(st, W_progress)
       \/ includes(st, W_doing)
       \/ includes(st, W_active)
       \/ includes(st, W_started)

\* the filter predicate of detectStagnantTasks (lines 202-233)
isStagnantAtThreshold(task, t, hours, unit) ==
    /\ isInProgress(task)
    /\ LET lastUpdated == parseInt(task.date_updated)
           timeSinceUpdate == DateDiff(t, lastUpdated)
       IN ~timeSinceUpdate.nan /\ timeSinceUpdate.v >= thresholdMs(hours, unit)
isStagnant(task, t, hours, unit) ==
    /\ isInProgress(task)
    /\ LET lastUpdated == parseInt(task.date_updated)
           timeSinceUpdate == DateDiff(t, lastUpdated)
       IN Greater(timeSinceUpdate, thresholdMs(hours, unit))

\* detectStagnantTasks (lines 190-234), for the data, clock and settings of a render
detectStagnantTasks(data, t, hours, unit) ==
    IF ~data.present \/ Len(data.tasks) = 0
    THEN <<>>
    ELSE LET Keep(task) == isStagnant(task, t, hours, unit)
         IN SelectSeq(data.tasks, Keep)

-----------------------------------------------------------------------------
(* The task lists the ClickUp API returns *)

Min(a, b) == IF a < b THEN a ELSE b

TaskIds == 1..limits.tasks

\* one unit of the threshold, in ms
UnitMs == thresholdMs(1, thresholdUnit)

\* the update stamps a task fetched at time t can carry
Stamps(t) == {DateField(k * UnitMs) : k \in 0..Min(limits.stamp, t \div UnitMs)}

Task(i, st, d) == [id |-> i, status |-> st, date_updated |-> d]

\* the forms of task i a fetch at time t can return: in progress with any stamp, or
\* complete (the stamp of a task that is not in progress is never read, line 226,
\* so one stamp stands for all)
FetchedTasks(i, t) ==
    {Task(i, StatusObject("In Progress", ""), d) : d \in Stamps(t)}
        \cup {Task(i, StatusObject("complete", ""), DateField(0))}

\* the task lists a fetch that completes at time t can return: tasks 1..k
TaskLists(t) ==
    UNION { { l \in [1..k -> UNION {FetchedTasks(i, t) : i \in 1..k}] :
                \A i \in 1..k : l[i].id = i } : k \in 0..limits.tasks }

Ids(seq) == {seq[i].id : i \in 1..Len(seq)}

-----------------------------------------------------------------------------
(* useClickUpData: fetchClickUpData, which is also the detector's refreshClickUpData *)

\* setData((prev) => ({ ...prev, loading: true, error: null }))  (line 18)
DataLoading(data) == [data EXCEPT !.loading = TRUE]

\* setData({ tasks: allTasks, ..., loading: false })  (lines 56-61)
DataLoaded(data, tasks) == [data EXCEPT !.tasks = tasks, !.loading = FALSE]

\* setData((prev) => ({ ...prev, loading: false, error }))  (lines 64-68)
DataFailed(data) == [data EXCEPT !.loading = FALSE]

\* what a fetch that completes at time t leaves in the data
FetchOutcomes(data, t) ==
    {DataLoaded(data, tasks) : tasks \in TaskLists(t)} \cup {DataFailed(data)}

-----------------------------------------------------------------------------
(* The effects of useStagnantTaskDetector, run when a render commits *)

\* hasClickUpData (line 393)
hasClickUpData(data) == data.present /\ Len(data.tasks) > 0

\* the auto-start effect (lines 392-414): isMonitoring after the effect, and after
\* the render its setIsMonitoring causes
AutoStartIgnoresWebhook(enabled, url, data, monitoring) ==
    LET shouldStart == enabled /\ hasClickUpData(data) /\ ~monitoring
        shouldStop  == (~enabled \/ ~hasClickUpData(data)) /\ monitoring
    IN IF shouldStart THEN TRUE ELSE IF shouldStop THEN FALSE ELSE monitoring
AutoStart(enabled, url, data, monitoring) ==
    LET shouldStart == enabled /\ url /\ hasClickUpData(data) /\ ~monitoring
        shouldStop  == (~enabled \/ ~url \/ ~hasClickUpData(data)) /\ monitoring
    IN IF shouldStart THEN TRUE ELSE IF shouldStop THEN FALSE ELSE monitoring

\* the periodic effect (lines 417-474) for the committed isMonitoring: its cleanup
\* clears both timers, and its body sets them again when monitoring
PeriodicEffect(monitoring) ==
    /\ initialTimeout' = monitoring
    /\ interval' = monitoring

\* a render with new props commits: both effects run, to their fixed point
Commit(enabled, url, data) ==
    /\ isMonitoring' = AutoStart(enabled, url, data, isMonitoring)
    /\ PeriodicEffect(isMonitoring')

\* the values a callback created by the current render closes over
Closure == [alertsEnabled |-> alertsEnabled, url |-> slackWebhookUrl, data |-> clickUpData]

-----------------------------------------------------------------------------
(* checkForStagnantTasks *)

\* the skip guard (line 302)
SkipsUnlessLoading(c) == ~c.alertsEnabled \/ ~c.data.present
Skips(c) == ~c.alertsEnabled \/ ~c.data.present \/ c.data.loading

\* newlyStagnant (lines 312-317)
newlyStagnantNoDedup(currentStagnant, prevStagnantTasks) == currentStagnant
newlyStagnantOncePerTask(currentStagnant, prevStagnantTasks) ==
    LET previousStagnantIds == Ids(prevStagnantTasks)
        Keep(task) == task.id \notin previousStagnantIds /\ alerts[task.id] = 0
    IN SelectSeq(currentStagnant, Keep)
newlyStagnant(currentStagnant, prevStagnantTasks) ==
    LET previousStagnantIds == Ids(prevStagnantTasks)
        Keep(task) == task.id \notin previousStagnantIds
    IN SelectSeq(currentStagnant, Keep)

\* the value the updater of setStagnantTasks returns (line 336)
storedStagnantKeepsOld(currentStagnant, prevStagnantTasks) ==
    prevStagnantTasks \o newlyStagnant(currentStagnant, prevStagnantTasks)
storedStagnant(currentStagnant, prevStagnantTasks) == currentStagnant

\* an alert batch: the async callback given to setTimeout (lines 323-330), with
\* the tasks it loops over, the position of the loop, and the webhook URL its
\* sendStagnantTaskAlert closes over.  failed is history: a delivery of the
\* batch has failed.
NoBatch == [phase |-> "free", tasks |-> <<>>, pos |-> 1, url |-> FALSE, failed |-> FALSE]
NewBatch(tasks, url) ==
    [phase |-> "timer", tasks |-> tasks, pos |-> 1, url |-> url, failed |-> FALSE]

Slots == DOMAIN batches
FreeSlots == {i \in Slots : batches[i].phase = "free"}
FirstFree == CHOOSE i \in FreeSlots : \A j \in FreeSlots : i <= j

Bump(n, max) == IF n < max THEN n + 1 ELSE n

\* the history of a check that found currentStagnant and scheduled alerts for newly
Observe(currentStagnant, newly) ==
    IF ~limits.observe
    THEN UNCHANGED <<episodes, alerts, streak, streakAlerts>>
    ELSE LET found == Ids(currentStagnant)
             entered == found \ Ids(stagnantTasks)
             counted(t) == episodes[t] < MaxEpisodes
         IN /\ episodes' = [t \in TaskIds |->
                   IF t \in entered THEN Bump(episodes[t], MaxEpisodes) ELSE episodes[t]]
            /\ alerts' = [t \in TaskIds |->
                   IF t \in Ids(newly) /\ (t \in entered => counted(t))
                   THEN Bump(alerts[t], MaxEpisodes + 1) ELSE alerts[t]]
            /\ streak' = [t \in TaskIds |->
                   IF t \in found THEN Bump(streak[t], MaxStreak) ELSE 0]
            /\ streakAlerts' = [t \in TaskIds |->
                   IF t \notin found THEN 0
                   ELSE LET before == IF streak[t] = 0 THEN 0 ELSE streakAlerts[t]
                        IN IF t \in Ids(newly) THEN Bump(before, 2) ELSE before]

\* checkForStagnantTasks (lines 293-340) called by a callback that closes over c;
\* the updater of setStagnantTasks runs on the state as it is
checkForStagnantTasks(c) ==
    IF Skips(c)
    THEN UNCHANGED <<stagnantTasks, lastCheck, batches, episodes, alerts, streak, streakAlerts>>
    ELSE LET currentStagnant ==
                 detectStagnantTasks(c.data, now, thresholdHours, thresholdUnit)
             newly == newlyStagnant(currentStagnant, stagnantTasks)
         IN /\ stagnantTasks' = storedStagnant(currentStagnant, stagnantTasks)
            /\ lastCheck' = [set |-> TRUE, at |-> now]
            /\ IF newly # <<>>
               THEN /\ FreeSlots # {}
                    /\ batches' = [batches EXCEPT ![FirstFree] = NewBatch(newly, c.url)]
               ELSE UNCHANGED batches
            /\ Observe(currentStagnant, newly)

-----------------------------------------------------------------------------
(* Initial state: the hooks as constructed, the mount fetch of useClickUpData in flight *)

\* no calculator is being called
NoArgs == [fn |-> "none"]
NotReturned == [done |-> FALSE]

\* useState(null) of an error, and an error that holds a message
NoError == [set |-> FALSE, message |-> ""]
ErrorOf(message) == [set |-> TRUE, message |-> message]

\* useTeamMetrics before its first effect (lines 32-45)
TeamMetricsIdle ==
    [clickUpConfigured |-> FALSE, githubConfigured |-> FALSE, mounted |-> FALSE,
     clickUpTasks |-> <<>>, clickUpLoading |-> TRUE, clickUpError |-> NoError,
     pullRequests |-> <<>>, commits |-> <<>>, githubLoading |-> TRUE,
     githubError |-> NoError,
     days |-> 30, metrics |-> [null |-> TRUE],
     clickUpFetches |-> <<>>, githubFetches |-> <<>>, continuations |-> <<>>]

\* a score of the metrics prop that is not there
NoScore == [defined |-> FALSE, n |-> 0]
Score(n) == [defined |-> TRUE, n |-> n]

\* useTeamHealthAlert before its first effect (useTeamHealthAlert.js lines 15-54)
HealthAlertIdle ==
    [mounted |-> FALSE, enabled |-> TRUE, healthScore |-> NoScore,
     qualityScore |-> NoScore, healthThreshold |-> 50, lastAlertTime |-> 0,
     settingsLoaded |-> FALSE, healthAlerts |-> 0, qualityAlerts |-> 0,
     lastHealthAlert |-> [sent |-> FALSE, at |-> 0]]

InitWith(nTasks, nCycles, nBatches, nStamp, observe) ==
    /\ now = 0
    /\ alertsEnabled \in BOOLEAN
    /\ slackWebhookUrl \in BOOLEAN
    /\ thresholdHours = 1
    /\ thresholdUnit = "seconds"
    /\ clickUpData = [present |-> TRUE, tasks |-> <<>>, loading |-> TRUE]
    /\ otherFetches = 1
    /\ stagnantTasks = <<>>
    /\ isMonitoring = FALSE
    /\ lastCheck = [set |-> FALSE, at |-> 0]
    /\ initialTimeout = FALSE
    /\ interval = FALSE
    /\ cycles = <<>>
    /\ batches = [i \in 1..nBatches |-> NoBatch]
    /\ detected = [called |-> FALSE, result |-> <<>>]
    /\ limits = [tasks |-> nTasks, cycles |-> nCycles, stamp |-> nStamp, observe |-> observe]
    /\ episodes = [t \in 1..nTasks |-> 0]
    /\ alerts = [t \in 1..nTasks |-> 0]
    /\ streak = [t \in 1..nTasks |-> 0]
    /\ streakAlerts = [t \in 1..nTasks |-> 0]
    /\ args = NoArgs
    /\ returned = NotReturned
    /\ teamMetrics = TeamMetricsIdle
    /\ healthAlert = HealthAlertIdle

Init == InitWith(NumTasks, MaxCycles, MaxBatches, MaxStamp, TRUE)
InitWide == InitWith(WideTasks, WideCycles, WideBatches, MaxStamp, FALSE)
InitBatch == InitWith(BatchTasks, BatchCycles, BatchBatches, BatchStamp, FALSE)

histVars == <<episodes, alerts, streak, streakAlerts>>
configVars == <<thresholdHours, thresholdUnit, detected, limits, args, returned,
                teamMetrics, healthAlert>>
checkVars == <<stagnantTasks, lastCheck, batches, episodes, alerts, streak, streakAlerts>>

-----------------------------------------------------------------------------
(* The environment *)

\* time passes: one threshold unit
Tick ==
    /\ now < MaxTicks * UnitMs
    /\ now' = now + UnitMs
    /\ UNCHANGED <<alertsEnabled, slackWebhookUrl, clickUpData, otherFetches, isMonitoring,
                   initialTimeout, interval, cycles, configVars, checkVars>>

\* the settings change alertsEnabled; the host renders
SetAlertsEnabled ==
    /\ alertsEnabled' = ~alertsEnabled
    /\ Commit(alertsEnabled', slackWebhookUrl, clickUpData)
    /\ UNCHANGED <<now, slackWebhookUrl, clickUpData, otherFetches, cycles,
                   configVars, checkVars>>

\* the settings change the webhook URL; the host renders
SetSlackWebhookUrl ==
    /\ slackWebhookUrl' = ~slackWebhookUrl
    /\ Commit(alertsEnabled, slackWebhookUrl', clickUpData)
    /\ UNCHANGED <<now, alertsEnabled, clickUpData, otherFetches, cycles,
                   configVars, checkVars>>

\* the host renders and hands the hook new function or object identities (the
\* dependencies of the periodic effect change): the effect runs again
Rerender ==
    /\ isMonitoring
    /\ ~initialTimeout
    /\ Commit(alertsEnabled, slackWebhookUrl, clickUpData)
    /\ UNCHANGED <<now, alertsEnabled, slackWebhookUrl, clickUpData, otherFetches, cycles,
                   configVars, checkVars>>

\* the Refresh button (TeamDashboard handleRefresh) calls fetchClickUpData
ManualRefresh ==
    /\ otherFetches < MaxOtherFetches
    /\ otherFetches' = otherFetches + 1
    /\ clickUpData' = DataLoading(clickUpData)
    /\ Commit(alertsEnabled, slackWebhookUrl, clickUpData')
    /\ UNCHANGED <<now, alertsEnabled, slackWebhookUrl, cycles, configVars, checkVars>>

\* a fetch that no cycle awaits completes
FetchCompletes ==
    /\ otherFetches > 0
    /\ otherFetches' = otherFetches - 1
    /\ clickUpData' \in FetchOutcomes(clickUpData, now)
    /\ Commit(alertsEnabled, slackWebhookUrl, clickUpData')
    /\ UNCHANGED <<now, alertsEnabled, slackWebhookUrl, cycles, configVars, checkVars>>

-----------------------------------------------------------------------------
(* The timers of the periodic effect *)

\* the initial timeout fires (lines 433-436)
InitialCheck ==
    /\ initialTimeout
    /\ initialTimeout' = FALSE
    /\ checkForStagnantTasks(Closure)
    /\ UNCHANGED <<now, alertsEnabled, slackWebhookUrl, clickUpData, otherFetches,
                   isMonitoring, interval, cycles, configVars>>

\* the interval fires (lines 442-449): the callback calls refreshClickUpData, which
\* sets loading, and waits for it.  late is history: a callback that started
\* later has already run its check.
IntervalTick ==
    /\ interval
    /\ Len(cycles) < limits.cycles
    /\ cycles' = Append(cycles, [c |-> Closure, late |-> FALSE])
    /\ clickUpData' = DataLoading(clickUpData)
    /\ Commit(alertsEnabled, slackWebhookUrl, clickUpData')
    /\ UNCHANGED <<now, alertsEnabled, slackWebhookUrl, otherFetches, configVars, checkVars>>

RemoveAt(seq, i) == SubSeq(seq, 1, i - 1) \o SubSeq(seq, i + 1, Len(seq))

\* the refresh of the i-th waiting interval callback completes, and the callback
\* goes on to its check (lines 449-460)
CycleCompletesAt(i) ==
    /\ i \in 1..Len(cycles)
    /\ clickUpData' \in FetchOutcomes(clickUpData, now)
    /\ Commit(alertsEnabled, slackWebhookUrl, clickUpData')
    /\ checkForStagnantTasks(cycles[i].c)
    /\ cycles' = LET rest == RemoveAt(cycles, i)
                 IN [j \in 1..Len(rest) |->
                        IF j < i /\ ~Skips(cycles[i].c)
                        THEN [rest[j] EXCEPT !.late = TRUE] ELSE rest[j]]
    /\ UNCHANGED <<now, alertsEnabled, slackWebhookUrl, otherFetches, configVars>>

CycleCompletes == \E i \in 1..Len(cycles) : CycleCompletesAt(i)

-----------------------------------------------------------------------------
(* The alert batches *)

\* what a failed delivery leaves of the batch: sendStagnantTaskAlert catches the
\* error (lines 287-289), and the loop goes on to its delay
DeliveryFailedUncaught(b) == NoBatch
DeliveryFailed(b) == [b EXCEPT !.phase = "delay", !.pos = b.pos + 1, !.failed = TRUE]

DeliverySucceeded(b) == [b EXCEPT !.phase = "delay", !.pos = b.pos + 1]

\* the timer of a batch fires, or its 1 s delay ends: the loop ends, or takes the
\* next task and calls sendStagnantTaskAlert, which returns at once without a URL
BatchStep(b) ==
    IF b.pos > Len(b.tasks) THEN NoBatch
    ELSE IF ~b.url THEN [b EXCEPT !.phase = "delay", !.pos = b.pos + 1]
    ELSE [b EXCEPT !.phase = "sending"]

BatchRunsAt(i) ==
    /\ batches[i].phase \in {"timer", "delay"}
    /\ batches' = [batches EXCEPT ![i] = BatchStep(batches[i])]
    /\ UNCHANGED <<now, alertsEnabled, slackWebhookUrl, clickUpData, otherFetches,
                   stagnantTasks, isMonitoring, lastCheck, initialTimeout, interval,
                   cycles, configVars, histVars>>

BatchRuns == \E i \in Slots : BatchRunsAt(i)

\* the fetch of sendStagnantTaskAlert settles (lines 274-289)
DeliverySettlesAt(i, ok) ==
    /\ batches[i].phase = "sending"
    /\ batches' = [batches EXCEPT ![i] =
           IF ok THEN DeliverySucceeded(batches[i]) ELSE DeliveryFailed(batches[i])]
    /\ UNCHANGED <<now, alertsEnabled, slackWebhookUrl, clickUpData, otherFetches,
                   stagnantTasks, isMonitoring, lastCheck, initialTimeout, interval,
                   cycles, configVars, histVars>>

DeliverySettles == \E i \in Slots, ok \in BOOLEAN : DeliverySettlesAt(i, ok)

-----------------------------------------------------------------------------

Next ==
    \/ Tick
    \/ SetAlertsEnabled
    \/ SetSlackWebhookUrl
    \/ Rerender
    \/ ManualRefresh
    \/ FetchCompletes
    \/ InitialCheck
    \/ IntervalTick
    \/ CycleCompletes
    \/ BatchRuns
    \/ DeliverySettles

\* one task; one callback and one batch at a time; the histories are kept
Spec == Init /\ [][Next]_vars
\* one task; callbacks and batches overlap
SpecWide == InitWide /\ [][Next]_vars
\* several tasks; one callback and one batch at a time
SpecBatch == InitBatch /\ [][Next]_vars

-----------------------------------------------------------------------------
(* detectStagnantTasks on its own: the hook returns it (line 484), and the     *)
(* component calls it with the data, the clock and the settings of its render *)

\* the length of the task lists the function is tried on
DetectLen == 2

\* the status fields it is tried on
DetectStatuses ==
    { StatusString("In Progress"), StatusObject("DOING", ""), StatusObject("", "Active"),
      StatusObject("Not Started", ""), StatusObject("complete", "Active"),
      StatusObject("to do", ""), StatusObject("progres", ""), StatusString("blocked"),
      StatusMissing }

\* the update stamps it is tried on: around the threshold, and missing
DetectDates(t, hours, unit) ==
    LET th == thresholdMs(hours, unit)
    IN {DateField(t - a) : a \in {0, th - 1, th, th + 1}} \cup {NoDate}

DetectLists(t, hours, unit) ==
    UNION { { l \in [1..k -> [id : 1..k, status : DetectStatuses,
                             date_updated : DetectDates(t, hours, unit)]] :
                \A i \in 1..k : l[i].id = i } : k \in 0..DetectLen }

InitDetect ==
    /\ thresholdHours \in {1, 2}
    /\ thresholdUnit \in {"hours", "seconds"}
    /\ now = 3 * thresholdMs(1, "hours")
    /\ alertsEnabled = FALSE
    /\ slackWebhookUrl = FALSE
    /\ clickUpData \in { [present |-> TRUE, tasks |-> l, loading |-> FALSE] :
                           l \in DetectLists(now, thresholdHours, thresholdUnit) }
    /\ otherFetches = 0
    /\ stagnantTasks = <<>>
    /\ isMonitoring = FALSE
    /\ lastCheck = [set |-> FALSE, at |-> 0]
    /\ initialTimeout = FALSE
    /\ interval = FALSE
    /\ cycles = <<>>
    /\ batches = [i \in 1..1 |-> NoBatch]
    /\ detected = [called |-> FALSE, result |-> <<>>]
    /\ limits = [tasks |-> DetectLen, cycles |-> 0, stamp |-> 0, observe |-> FALSE]
    /\ episodes = [t \in 1..DetectLen |-> 0]
    /\ alerts = [t \in 1..DetectLen |-> 0]
    /\ streak = [t \in 1..DetectLen |-> 0]
    /\ streakAlerts = [t \in 1..DetectLen |-> 0]
    /\ args = NoArgs
    /\ returned = NotReturned
    /\ teamMetrics = TeamMetricsIdle
    /\ healthAlert = HealthAlertIdle

DetectCall ==
    /\ detected' = [called |-> TRUE,
                    result |-> detectStagnantTasks(clickUpData, now, thresholdHours,
                                                   thresholdUnit)]
    /\ UNCHANGED <<now, alertsEnabled, slackWebhookUrl, thresholdHours, thresholdUnit,
                   clickUpData, otherFetches, stagnantTasks, isMonitoring, lastCheck,
                   initialTimeout, interval, cycles, batches, limits, histVars,
                   args, returned, teamMetrics, healthAlert>>

NextDetect == DetectCall

SpecDetect == InitDetect /\ [][NextDetect]_vars

-----------------------------------------------------------------------------
(* C4 *)

\* the in-progress vocabulary and the unit lengths, as the claim states them
C4_Words == {W_progress, W_doing, W_active, W_started}
C4_Threshold == thresholdHours * (IF thresholdUnit = "hours" THEN 3600000 ELSE 1000)
C4_Expected(task) ==
    /\ \E w \in C4_Words : includes(statusText(task), w)
    /\ ~task.date_updated.missing
    /\ now - task.date_updated.ms > C4_Threshold

\* C4: detectStagnantTasks returns exactly the tasks whose lower-cased status text
\* contains progress, doing, active or started and whose age now - lastUpdated is
\* strictly greater than the threshold (value x 1 hour, or x 1 second in seconds
\* mode), in the order of the list; a task at exactly the threshold, or with a
\* status that matches no word, is not returned.
C4_DetectExact ==
    detected.called => detected.result = SelectSeq(clickUpData.tasks, C4_Expected)

\* a call that returned one task and left out one in progress at exactly the threshold
C4_Witness ==
    /\ detected.called
    /\ Len(detected.result) = 1
    /\ \E i \in 1..Len(clickUpData.tasks) :
          LET task == clickUpData.tasks[i]
          IN /\ includes(statusText(task), W_started)
             /\ ~task.date_updated.missing
             /\ now - task.date_updated.ms = C4_Threshold
             /\ task.id \notin Ids(detected.result)

-----------------------------------------------------------------------------
(* C1, C2: one alert per stagnation episode *)

\* C1: a task that a check finds stagnant for the first time and that every
\* following check (none of them skipped) finds stagnant again has had exactly one
\* alert scheduled during that streak of checks, however long the streak is (six
\* checks and more), and the alert is the one of the first check of the streak:
\* the count is 1 from the first check on.  Every scheduled batch posts to a
\* configured webhook URL.
C1_OneAlertPerStreak ==
    /\ \A t \in TaskIds : streak[t] >= 1 => streakAlerts[t] = 1
    /\ \A i \in Slots : batches[i].phase # "free" => batches[i].url

\* six checks in a row have found task 1 stagnant
C1_Witness == streak[1] >= 6 /\ streakAlerts[1] = 1 /\ 1 \in Ids(stagnantTasks)

\* C2: every new stagnation episode of a task (a check finds it stagnant when the
\* check before did not track it) produces one more alert: the alerts scheduled
\* for a task are as many as its episodes, also for an episode that follows an
\* earlier, alerted one.
C2_AlertPerEpisode == \A t \in TaskIds : alerts[t] = episodes[t]

\* task 1 is in its second episode and has its second alert
C2_Witness == episodes[1] = 2 /\ alerts[1] = 2 /\ streak[1] >= 1

-----------------------------------------------------------------------------
(* C3, C5: what a check dispatches and stores *)

\* the task ids of the alert batches a step creates
Dispatched ==
    UNION {Ids(batches'[i].tasks) :
             i \in {j \in Slots : batches[j].phase = "free" /\ batches'[j].phase = "timer"}}

\* a step is a check that closes over c and is not skipped (the first conjuncts
\* follow from the action; they spare evaluating it on the other steps)
RanInitial(c) ==
    /\ c = Closure /\ ~Skips(c)
    /\ initialTimeout /\ ~initialTimeout' /\ cycles' = cycles
    /\ InitialCheck
RanCycle(c) ==
    /\ ~Skips(c)
    /\ Len(cycles') < Len(cycles)
    /\ \E i \in 1..Len(cycles) : c = cycles[i].c /\ CycleCompletesAt(i)

\* the closures a check of a step can have
StepClosures == {Closure} \cup {cycles[i].c : i \in 1..Len(cycles)}

\* C3: at every check that is not skipped, the ids a batch is created for are the
\* ids of the detected stagnant set minus the ids the previous check stored; no id
\* of the stored set is dispatched; and no other step creates a batch.
C3_Step ==
    /\ \A c \in StepClosures :
          (RanInitial(c) \/ RanCycle(c)) =>
              LET found == Ids(detectStagnantTasks(c.data, now, thresholdHours, thresholdUnit))
              IN /\ Dispatched = found \ Ids(stagnantTasks)
                 /\ Dispatched \cap Ids(stagnantTasks) = {}
    /\ Dispatched # {} => InitialCheck \/ CycleCompletes
C3_AlertsAreSetDifference == [][C3_Step]_vars

\* a batch for task 2 alone while tasks 1 and 2 are tracked: the check that
\* created it found both and had task 1 stored
C3_Witness ==
    /\ Ids(stagnantTasks) = {1, 2}
    /\ \E i \in Slots : batches[i].phase = "timer" /\ Ids(batches[i].tasks) = {2}

\* the stagnation predicate as the claim states it
C5_Stagnant(task) ==
    /\ \E w \in {W_progress, W_doing, W_active, W_started} : includes(statusText(task), w)
    /\ ~task.date_updated.missing
    /\ now - task.date_updated.ms >
           thresholdHours * (IF thresholdUnit = "hours" THEN 3600000 ELSE 1000)

\* C5: after every check that is not skipped the tracked set is exactly the set
\* the check detected in its data: a tracked task that is no longer in progress,
\* or was updated within the threshold, is dropped, and nothing else stays.
C5_Step ==
    \A c \in StepClosures :
        (RanInitial(c) \/ RanCycle(c)) =>
            Ids(stagnantTasks') =
                {c.data.tasks[i].id : i \in {j \in 1..Len(c.data.tasks) :
                                                C5_Stagnant(c.data.tasks[j])}}
-----------------------------------------------------------------------------
(* C6 - C10: timers, deliveries and the monitoring flag *)

\* C6: once monitoring has stopped no alert is sent: while isMonitoring is false
\* no step starts a delivery to Slack (no batch comes to "sending"), whatever was
\* pending when monitoring stopped.
C6_DeliveryStarts ==
    \E i \in Slots : batches[i].phase # "sending" /\ batches'[i].phase = "sending"
C6_NoAlertAfterStop == [][~isMonitoring => ~C6_DeliveryStarts]_vars

\* C7: a failed delivery is caught: it takes the batch to the delay before its
\* next task exactly as a successful one does and leaves monitoring and its
\* timers alone; after the delay the next task gets its delivery attempt; and a
\* batch ends only after its last task had its attempt.
C7_Step ==
    \A i \in Slots :
        LET b == batches[i]
            nb == batches'[i]
        IN /\ (b.phase = "sending" /\ nb # b) =>
                  /\ nb.phase = "delay" /\ nb.tasks = b.tasks /\ nb.pos = b.pos + 1
                  /\ UNCHANGED <<isMonitoring, initialTimeout, interval, cycles>>
           /\ (b.phase \in {"timer", "delay"} /\ nb # b /\ b.pos <= Len(b.tasks)) =>
                  nb.phase = "sending" /\ nb.tasks = b.tasks /\ nb.pos = b.pos
           /\ (b.phase # "free" /\ nb.phase = "free") =>
                  b.phase \in {"timer", "delay"} /\ b.pos > Len(b.tasks)
C7_FailureIsContained == [][C7_Step]_vars

\* the delivery for the first task of a batch failed, the one for its second task
\* is under way, and the interval is still set
C7_Witness ==
    \E i \in Slots :
        /\ batches[i].failed /\ batches[i].phase = "sending" /\ batches[i].pos = 2
        /\ Len(batches[i].tasks) = 2
        /\ isMonitoring /\ interval

\* C8: deliveries are strictly one at a time, across batches too: at no time are
\* two deliveries in flight.
C8_OneDeliveryAtATime == Cardinality({i \in Slots : batches[i].phase = "sending"}) <= 1

\* C9: detector cycles never overlap: an interval callback starts only when none
\* waits on its refresh, a check of the initial timeout that is not skipped runs
\* only when none waits, and no callback runs its check after a callback that
\* started later has run its own (a late cycle overwriting the newer result).
C9_Step ==
    /\ Len(cycles') <= 1
    /\ (initialTimeout /\ ~initialTimeout' /\ ~Skips(Closure) /\ InitialCheck) => cycles = <<>>
    /\ Len(cycles') < Len(cycles) =>
          \A i \in 1..Len(cycles) :
              (CycleCompletesAt(i) /\ ~Skips(cycles[i].c)) => ~cycles[i].late
C9_ChecksNeverOverlap == [][C9_Step]_vars

\* C10: isMonitoring is true exactly when alerts are enabled, a webhook URL is
\* set and the ClickUp data holds at least one task; the render that follows a
\* change of any of the three brings it there, and while it is false neither the
\* initial timeout nor the interval is pending.
C10_MonitoringFollowsConditions ==
    /\ isMonitoring <=>
           (alertsEnabled /\ slackWebhookUrl /\ clickUpData.present
               /\ Len(clickUpData.tasks) >= 1)
    /\ ~isMonitoring => ~initialTimeout /\ ~interval
    /\ isMonitoring => interval

\* monitoring ran (a check is on record) and was stopped by clearing the URL
C10_Witness ==
    /\ lastCheck.set /\ ~isMonitoring /\ ~slackWebhookUrl /\ alertsEnabled
    /\ Len(clickUpData.tasks) >= 1 /\ ~initialTimeout /\ ~interval

-----------------------------------------------------------------------------
(* Blocked tasks: useClickUpData getBlockedTasks, getBlockedTasksWithDuration *)

W_blocked == <<"b","l","o","c","k","e","d">>
W_waiting == <<"w","a","i","t","i","n","g">>
W_pending == <<"p","e","n","d","i","n","g">>
W_stuck   == <<"s","t","u","c","k">>
W_review  == <<"r","e","v","i","e","w">>

HourMs == 1000 * 60 * 60
DayMs == 1000 * 60 * 60 * 24

\* task.status?.status?.toLowerCase() || ""  (line 113)
statusName(task) ==
    IF task.status.kind = "object" THEN toLowerCase(task.status.status) ELSE <<>>

\* isBlockedStatus (lines 114-117)
isBlockedStatus(task) ==
    LET st == statusName(task)
    IN includes(st, W_blocked) \/ includes(st, W_waiting) \/ includes(st, W_pending)

\* hasBlockedComments (lines 120-128); task.comments is a list of comment texts,
\* empty when the task has none
hasBlockedComments(task) ==
    \E i \in 1..Len(task.comments) :
        LET text == toLowerCase(task.comments[i])
        IN \/ includes(text, W_blocked) \/ includes(text, W_waiting)
           \/ includes(text, W_pending) \/ includes(text, W_stuck)

\* the filter predicate of getBlockedTasks (lines 111-131)
isBlockedTask(task) == isBlockedStatus(task) \/ hasBlockedComments(task)

\* getBlockedTasks() without a user id (lines 108-132)
getBlockedTasks(tasks) == SelectSeq(tasks, isBlockedTask)

\* blockedSince (lines 155-157), in ms; date_created is always present in a task
\* that ClickUp returns
blockedSinceCreated(task) == task.date_created.ms
blockedSince(task) ==
    IF ~task.date_updated.missing THEN task.date_updated.ms ELSE task.date_created.ms

\* hoursBlocked (line 159): Math.floor((now - blockedSince) / (1000 * 60 * 60))
hoursBlocked(task, t) == (t - blockedSince(task)) \div HourMs

\* getBlockedTasksWithDuration (lines 152-168): the fields it adds to each task
getBlockedTasksWithDuration(tasks, t) ==
    LET blocked == getBlockedTasks(tasks)
    IN [i \in 1..Len(blocked) |->
           [task |-> blocked[i],
            hoursBlocked |-> hoursBlocked(blocked[i], t),
            needsFollowUp |-> hoursBlocked(blocked[i], t) >= 48]]

-----------------------------------------------------------------------------
(* useBlockedTickets *)

\* one entry when the rule holds, none otherwise
When(cond, type) == IF cond THEN <<type>> ELSE <<>>

\* task.status?.status?.toLowerCase().includes(word): undefined, so falsy, when
\* the status has no status field (lines 33, 42)
statusMentions(task, word) ==
    task.status.kind = "object" /\ task.status.status # ""
        /\ includes(toLowerCase(task.status.status), word)

\* daysSinceUpdate (lines 52-57)
daysSinceUpdate(task, t) ==
    IF ~task.date_updated.missing THEN (t - task.date_updated.ms) \div DayMs ELSE 0

\* the suggestions of a blocked task, by type (lines 11-76); b is an entry of
\* getBlockedTasksWithDuration
suggestionsAlwaysFallback(b, t) ==
    When(b.hoursBlocked > 48, "urgent")
        \o When(Len(b.task.assignees) = 0, "assignment")
        \o When(statusMentions(b.task, W_waiting), "communication")
        \o When(statusMentions(b.task, W_review), "review")
        \o When(daysSinceUpdate(b.task, t) > 3, "reassignment")
        \o <<"status_update">>
suggestions(b, t) ==
    LET rules == When(b.hoursBlocked > 48, "urgent")
                     \o When(Len(b.task.assignees) = 0, "assignment")
                     \o When(statusMentions(b.task, W_waiting), "communication")
                     \o When(statusMentions(b.task, W_review), "review")
                     \o When(daysSinceUpdate(b.task, t) > 3, "reassignment")
    IN IF Len(rules) = 0 THEN <<"status_update">> ELSE rules

\* priorityLevel (lines 83-88)
priorityLevelFrom48(h) == IF h >= 48 THEN "critical" ELSE IF h > 24 THEN "high" ELSE "medium"
priorityLevel(h) == IF h > 48 THEN "critical" ELSE IF h > 24 THEN "high" ELSE "medium"

\* what the map adds to a blocked task (lines 10-90)
withSuggestions(b, t) ==
    [task |-> b.task,
     hoursBlocked |-> b.hoursBlocked,
     needsFollowUp |-> b.needsFollowUp,
     assigneeName |-> IF Len(b.task.assignees) > 0 /\ b.task.assignees[1] # ""
                      THEN b.task.assignees[1] ELSE "Unassigned",
     suggestions |-> suggestions(b, t),
     daysSinceUpdate |-> daysSinceUpdate(b.task, t),
     priorityLevel |-> priorityLevel(b.hoursBlocked)]

\* priorityOrder (line 93)
priorityOrder(level) ==
    CASE level = "critical" -> 3 [] level = "high" -> 2 [] level = "medium" -> 1
      [] level = "low" -> 0

\* the comparator of the sort (lines 91-100)
compareBlocked(a, b) ==
    IF priorityOrder(a.priorityLevel) # priorityOrder(b.priorityLevel)
    THEN priorityOrder(b.priorityLevel) - priorityOrder(a.priorityLevel)
    ELSE b.hoursBlocked - a.hoursBlocked

\* Array.prototype.sort with that comparator: stable, x goes before the first
\* element it has to precede
RECURSIVE InsertBlocked(_, _)
InsertBlocked(sorted, x) ==
    IF sorted = <<>> THEN <<x>>
    ELSE IF compareBlocked(x, Head(sorted)) < 0 THEN <<x>> \o sorted
    ELSE <<Head(sorted)>> \o InsertBlocked(Tail(sorted), x)

RECURSIVE sortBlockedFrom(_, _)
sortBlockedFrom(sorted, rest) ==
    IF rest = <<>> THEN sorted
    ELSE sortBlockedFrom(InsertBlocked(sorted, Head(rest)), Tail(rest))

sortBlockedUnsorted(list) == list
sortBlocked(list) == sortBlockedFrom(<<>>, list)

\* blockedTicketsWithSuggestions (lines 4-101) for the tasks of the ClickUp data
blockedTickets(tasks, t) ==
    LET blocked == getBlockedTasksWithDuration(tasks, t)
    IN sortBlocked([i \in 1..Len(blocked) |-> withSuggestions(blocked[i], t)])

-----------------------------------------------------------------------------
(* Calls of the calculators: the detector is idle, the clock stands at Now *)

\* the time of the call, in ms
Now == 200 * HourMs

detectorVars == <<alertsEnabled, slackWebhookUrl, thresholdHours, thresholdUnit,
                  clickUpData, otherFetches, stagnantTasks, isMonitoring, lastCheck,
                  initialTimeout, interval, cycles, batches, detected, limits, histVars>>
hookVars == <<now, detectorVars, teamMetrics, healthAlert>>

DetectorIdle ==
    /\ alertsEnabled = FALSE
    /\ slackWebhookUrl = FALSE
    /\ thresholdHours = 1
    /\ thresholdUnit = "hours"
    /\ clickUpData = [present |-> TRUE, tasks |-> <<>>, loading |-> FALSE]
    /\ otherFetches = 0
    /\ stagnantTasks = <<>>
    /\ isMonitoring = FALSE
    /\ lastCheck = [set |-> FALSE, at |-> 0]
    /\ initialTimeout = FALSE
    /\ interval = FALSE
    /\ cycles = <<>>
    /\ batches = [i \in 1..1 |-> NoBatch]
    /\ detected = [called |-> FALSE, result |-> <<>>]
    /\ limits = [tasks |-> 0, cycles |-> 0, stamp |-> 0, observe |-> FALSE]
    /\ episodes = <<>>
    /\ alerts = <<>>
    /\ streak = <<>>
    /\ streakAlerts = <<>>

HookIdle ==
    /\ now = Now
    /\ DetectorIdle
    /\ teamMetrics = TeamMetricsIdle
    /\ healthAlert = HealthAlertIdle

\* the lists of at most n elements of S
ListsUpTo(S, n) == UNION {[1..k -> S] : k \in 0..n}

-----------------------------------------------------------------------------
(* SpecBlocked: useBlockedTickets on bounded ClickUp data *)

\* the blocked list is computed for task lists of at most this length
BlockedLen == 2

\* ages of the last update, in ms: around 24 h and 48 h (the tiers) and 4 days
\* (the reassignment rule), on and just under the hour
BlockedAges ==
    {24 * HourMs, 25 * HourMs, 48 * HourMs, 49 * HourMs - 1, 49 * HourMs,
     96 * HourMs - 1, 96 * HourMs}

BlockedInputTasks ==
    [status : {StatusObject("Blocked", ""), StatusObject("Waiting on Review", ""),
               StatusObject("in review", ""), StatusMissing},
     comments : {<<>>, <<"lgtm", "I am STUCK">>},
     assignees : {<<>>, <<"ann">>},
     date_updated : {NoDate} \cup {DateField(Now - a) : a \in BlockedAges},
     date_created : {DateField(Now - 10 * HourMs), DateField(Now - 50 * HourMs)}]

InitBlocked ==
    /\ HookIdle
    /\ args \in {[fn |-> "useBlockedTickets", tasks |-> l] :
                    l \in ListsUpTo(BlockedInputTasks, BlockedLen)}
    /\ returned = NotReturned

\* the memo of useBlockedTickets is computed (part_005 lines 4-101)
BlockedTicketsCall ==
    /\ args.fn = "useBlockedTickets"
    /\ ~returned.done
    /\ returned' = [done |-> TRUE, value |-> blockedTickets(args.tasks, now)]
    /\ UNCHANGED <<hookVars, args>>

NextBlocked == BlockedTicketsCall

SpecBlocked == InitBlocked /\ [][NextBlocked]_vars

-----------------------------------------------------------------------------
(* C11 - C13: the blocked list *)

C11_Tier(ticket) ==
    CASE ticket.priorityLevel = "critical" -> 3
      [] ticket.priorityLevel = "high" -> 2
      [] ticket.priorityLevel = "medium" -> 1
      [] ticket.priorityLevel = "low" -> 0

\* C11: the list useBlockedTickets returns holds every blocked task once and is
\* sorted by tier descending (critical > high > medium > low) and, within a tier,
\* by hoursBlocked descending; no high task comes before a critical one.
C11_SortedByTierThenHours ==
    returned.done =>
        LET list == returned.value IN
        /\ Len(list) = Len(getBlockedTasks(args.tasks))
        /\ \A i \in 1..(Len(list) - 1) :
              \/ C11_Tier(list[i]) > C11_Tier(list[i + 1])
              \/ /\ C11_Tier(list[i]) = C11_Tier(list[i + 1])
                 /\ list[i].hoursBlocked >= list[i + 1].hoursBlocked
        /\ \A i, j \in 1..Len(list) :
              (list[i].priorityLevel = "critical" /\ list[j].priorityLevel = "high") => i < j

\* the data held a high task before a critical one, and the list has them swapped
C11_Witness ==
    /\ returned.done
    /\ Len(args.tasks) = 2 /\ Len(returned.value) = 2
    /\ hoursBlocked(args.tasks[1], now) = 48 /\ hoursBlocked(args.tasks[2], now) = 49
    /\ returned.value[1].priorityLevel = "critical"
    /\ returned.value[2].priorityLevel = "high"
    /\ returned.value[1].task = args.tasks[2]

\* the five rules as the claim states them, in their order
C12_Order == <<"urgent", "assignment", "communication", "review", "reassignment">>
C12_Matches(ticket, type) ==
    LET st == IF ticket.task.status.kind = "object"
              THEN toLowerCase(ticket.task.status.status) ELSE <<>>
        days == IF ticket.task.date_updated.missing THEN 0
                ELSE (now - ticket.task.date_updated.ms) \div DayMs
    IN CASE type = "urgent" -> ticket.hoursBlocked > 48
         [] type = "assignment" -> ticket.task.assignees = <<>>
         [] type = "communication" -> includes(st, W_waiting)
         [] type = "review" -> includes(st, W_review)
         [] type = "reassignment" -> days > 3

\* C12: the suggestions of every blocked task are never empty and are exactly the
\* matching rules in the fixed order urgent, assignment, communication, review,
\* reassignment; when no rule matches they are the single status_update entry,
\* which never comes with another entry.
C12_SuggestionsAreMatchingRules ==
    returned.done =>
        \A i \in 1..Len(returned.value) :
            LET ticket == returned.value[i]
                Match(type) == C12_Matches(ticket, type)
                expected == SelectSeq(C12_Order, Match)
            IN /\ ticket.suggestions # <<>>
               /\ ticket.suggestions =
                      IF expected = <<>> THEN <<"status_update">> ELSE expected
               /\ (\E k \in 1..Len(ticket.suggestions) :
                       ticket.suggestions[k] = "status_update")
                      => Len(ticket.suggestions) = 1

\* one task of the list matches all five rules, another none
C12_Witness ==
    /\ returned.done
    /\ \E i \in 1..Len(returned.value) : returned.value[i].suggestions = C12_Order
    /\ \E i \in 1..Len(returned.value) : returned.value[i].suggestions = <<"status_update">>

\* C13: hoursBlocked is the whole hours from blockedSince to now, blockedSince
\* being the update stamp when the task has one and the creation stamp
\* otherwise; the tier is critical above 48 hours, high above 24 and up to 48,
\* medium up to 24.
C13_HoursAndTier ==
    returned.done =>
        \A i \in 1..Len(returned.value) :
            LET ticket == returned.value[i]
                since == IF ticket.task.date_updated.missing
                         THEN ticket.task.date_created.ms
                         ELSE ticket.task.date_updated.ms
                h == ticket.hoursBlocked
            IN /\ h * 3600000 <= now - since
               /\ now - since < (h + 1) * 3600000
               /\ (h > 48) <=> (ticket.priorityLevel = "critical")
               /\ (h > 24 /\ h <= 48) <=> (ticket.priorityLevel = "high")
               /\ (h <= 24) <=> (ticket.priorityLevel = "medium")

\* a task one ms short of 49 hours is high at 48, and a task without an update
\* stamp is timed from its creation
C13_Witness ==
    /\ returned.done
    /\ \E i \in 1..Len(returned.value) :
          /\ returned.value[i].hoursBlocked = 48
          /\ returned.value[i].priorityLevel = "high"
          /\ returned.value[i].task.date_updated = DateField(now - (49 * 3600000 - 1))
    /\ \E i \in 1..Len(returned.value) :
          /\ returned.value[i].task.date_updated.missing
          /\ returned.value[i].hoursBlocked = 50
          /\ returned.value[i].priorityLevel = "critical"

-----------------------------------------------------------------------------
(* calculateBlockerMetrics (clickupService) *)

\* the filter predicate of calculateBlockerMetrics (part_012 lines 165-168)
isBlockedForCensus(task) ==
    LET status == statusName(task)
    IN includes(status, W_blocked) \/ includes(status, W_waiting)

\* the key of byStatus (line 173) and of byAssignee (line 178)
statusLabel(task) ==
    IF task.status.kind = "object" /\ task.status.status # ""
    THEN task.status.status ELSE "No Status"
firstAssignee(task) ==
    IF Len(task.assignees) > 0 /\ task.assignees[1] # ""
    THEN task.assignees[1] ELSE "Unassigned"

\* the object a reduce builds: per key, the number of tasks of the list with it
CountBy(list, Key(_)) ==
    [k \in {Key(list[i]) : i \in 1..Len(list)} |->
        Cardinality({i \in 1..Len(list) : Key(list[i]) = k})]

\* calculateBlockerMetrics (part_012 lines 164-183)
calculateBlockerMetrics(tasks) ==
    LET blockedTasks == SelectSeq(tasks, isBlockedForCensus)
    IN [totalBlocked |-> Len(blockedTasks),
        byStatus |-> CountBy(blockedTasks, statusLabel),
        byAssignee |-> CountBy(blockedTasks, firstAssignee)]

-----------------------------------------------------------------------------
(* SpecBlockers: the census and the filter on the same task lists *)

BlockersLen == 2

BlockersInputTasks ==
    [status : {StatusObject("Blocked", ""), StatusObject("Waiting on Review", ""),
               StatusObject("PENDING QA", ""), StatusObject("in review", ""),
               StatusMissing},
     comments : {<<>>, <<"lgtm", "I am STUCK">>},
     assignees : {<<>>, <<"ann">>, <<"bob", "ann">>}]

InitBlockers ==
    /\ HookIdle
    /\ args \in {[fn |-> f, tasks |-> l] :
                    f \in {"calculateBlockerMetrics", "getBlockedTasks"},
                    l \in ListsUpTo(BlockersInputTasks, BlockersLen)}
    /\ returned = NotReturned

BlockerMetricsCall ==
    /\ args.fn = "calculateBlockerMetrics"
    /\ ~returned.done
    /\ returned' = [done |-> TRUE, value |-> calculateBlockerMetrics(args.tasks)]
    /\ UNCHANGED <<hookVars, args>>

BlockedTasksCall ==
    /\ args.fn = "getBlockedTasks"
    /\ ~returned.done
    /\ returned' = [done |-> TRUE, value |-> getBlockedTasks(args.tasks)]
    /\ UNCHANGED <<hookVars, args>>

NextBlockers == BlockerMetricsCall \/ BlockedTasksCall

SpecBlockers == InitBlockers /\ [][NextBlockers]_vars

\* the blocker predicate as the claim states it
C14_Blocked(task) ==
    LET st == IF task.status.kind = "object" THEN toLowerCase(task.status.status) ELSE <<>>
    IN \/ \E w \in {W_blocked, W_waiting, W_pending} : includes(st, w)
       \/ \E i \in 1..Len(task.comments) :
              \E w \in {W_blocked, W_waiting, W_pending, W_stuck} :
                  includes(toLowerCase(task.comments[i]), w)

\* C14: getBlockedTasks returns exactly the tasks that the predicate classifies
\* as blocked, and calculateBlockerMetrics counts exactly those: totalBlocked is
\* their number, byStatus their count per status label, byAssignee their count
\* per first assignee ("Unassigned" without one).
C14_CensusAndFilterAgree ==
    returned.done =>
        LET set == SelectSeq(args.tasks, C14_Blocked)
        IN IF args.fn = "getBlockedTasks" THEN returned.value = set
           ELSE /\ returned.value.totalBlocked = Len(set)
                /\ returned.value.byStatus = CountBy(set, statusLabel)
                /\ returned.value.byAssignee = CountBy(set, firstAssignee)

\* the part of C14 that is about getBlockedTasks alone
C14_FilterMatchesPredicate ==
    (returned.done /\ args.fn = "getBlockedTasks") =>
        returned.value = SelectSeq(args.tasks, C14_Blocked)

-----------------------------------------------------------------------------
(* calculateVelocity (clickupService) *)

W_completed == <<"c","o","m","p","l","e","t","e","d">>
W_done      == <<"d","o","n","e">>
W_closed    == <<"c","l","o","s","e","d">>
W_deployed  == <<"d","e","p","l","o","y","e","d">>
W_finished  == <<"f","i","n","i","s","h","e","d">>
W_accepted  == <<"a","c","c","e","p","t","e","d">>

\* the array of line 112-119
CompletedStatuses == {W_completed, W_done, W_closed, W_deployed, W_finished, W_accepted}

\* task.points: a number, or missing
NoPoints == [missing |-> TRUE, v |-> 0]
Points(v) == [missing |-> FALSE, v |-> v]

\* a quotient of integers, kept as the pair; a denominator of 0 is a division by
\* 0, whose value is Infinity or NaN
Quotient(n, d) == [num |-> n, den |-> d]
SameQuotient(q, r) == q.num * r.den = r.num * q.den

\* cutoffDate (lines 101-102), in ms
cutoffDate(t, days) == t - days * DayMs

\* task.date_closed || task.date_updated (line 121)
taskDate(task) == IF ~task.date_closed.missing THEN task.date_closed ELSE task.date_updated

\* isWithinTimeframe (lines 122-123): computed, and read only by the log
isWithinTimeframe(task, t, days) ==
    ~taskDate(task).missing /\ taskDate(task).ms >= cutoffDate(t, days)

\* isCompleted (lines 109-119)
isCompleted(task) ==
    /\ task.status.kind = "object" /\ task.status.status # ""
    /\ toLowerCase(task.status.status) \in CompletedStatuses

\* the filter of completedTasks returns isCompleted (line 134)
countsForVelocity(task, t, days) == isCompleted(task)

\* parseInt(task.points) || 1 (line 145): 1 when points is missing, and when it is 0
pointsOf(task) ==
    LET points == IF task.points.missing THEN NaN ELSE Num(task.points.v)
    IN IF points.nan \/ points.v = 0 THEN 1 ELSE points.v

RECURSIVE sumPoints(_)
sumPoints(list) == IF list = <<>> THEN 0 ELSE pointsOf(Head(list)) + sumPoints(Tail(list))

\* calculateVelocity (part_012 lines 100-157)
calculateVelocity(tasks, t, days) ==
    LET Counted(task) == countsForVelocity(task, t, days)
        completedTasks == SelectSeq(tasks, Counted)
        totalPoints == sumPoints(completedTasks)
    IN [totalTasks |-> Len(completedTasks),
        totalPoints |-> totalPoints,
        averagePerDay |-> Quotient(totalPoints, days),
        averagePerWeek |-> Quotient(totalPoints * 7, days)]

-----------------------------------------------------------------------------
(* SpecVelocity: calculateVelocity on bounded task lists and windows *)

VelocityLen == 2

\* the windows, in days; nothing keeps a caller from passing 0
VelocityDays == {0, 1, 7}

VelocityInputTasks ==
    [status : {StatusObject("Done", ""), StatusObject("Closed", ""),
               StatusObject("COMPLETED", ""), StatusObject("deployed", ""),
               StatusObject("finished", ""), StatusObject("accepted", ""),
               StatusObject("not done", ""), StatusMissing},
     points : {NoPoints, Points(0), Points(3)},
     date_closed : {NoDate, DateField(Now - 2 * DayMs)},
     date_updated : {NoDate, DateField(Now - 7 * DayMs), DateField(Now - 7 * DayMs - 1)}]

InitVelocity ==
    /\ HookIdle
    /\ args \in {[fn |-> "calculateVelocity", tasks |-> l, days |-> d] :
                    l \in ListsUpTo(VelocityInputTasks, VelocityLen), d \in VelocityDays}
    /\ returned = NotReturned

VelocityCall ==
    /\ args.fn = "calculateVelocity"
    /\ ~returned.done
    /\ returned' = [done |-> TRUE, value |-> calculateVelocity(args.tasks, now, args.days)]
    /\ UNCHANGED <<hookVars, args>>

NextVelocity == VelocityCall

SpecVelocity == InitVelocity /\ [][NextVelocity]_vars

-----------------------------------------------------------------------------
(* C15, C16: velocity *)

\* a task the claim counts: a completion status and a stamp (closing, else last
\* update) within the last days days
C15_Completed(task) ==
    /\ task.status.kind = "object"
    /\ toLowerCase(task.status.status) \in
           {W_completed, W_done, W_closed, W_deployed, W_finished, W_accepted}
C15_Stamp(task) == IF task.date_closed.missing THEN task.date_updated ELSE task.date_closed
C15_InWindow(task) ==
    ~C15_Stamp(task).missing /\ now - C15_Stamp(task).ms <= args.days * 24 * 3600000
C15_Counted(task) == C15_Completed(task) /\ C15_InWindow(task)

\* C15: calculateVelocity counts exactly the tasks with a completion status whose
\* closing stamp (or last-update stamp without one) lies within the window: a
\* completed task older than the window adds nothing to totalTasks or totalPoints.
C15_CountsOnlyInWindow ==
    returned.done =>
        /\ returned.value.totalTasks = Len(SelectSeq(args.tasks, C15_Counted))
        /\ returned.value.totalPoints = sumPoints(SelectSeq(args.tasks, C15_Counted))

\* the half of C15 about the vocabulary: no task without a completion status is counted
C15_CountsOnlyCompleted ==
    returned.done => returned.value.totalTasks = Len(SelectSeq(args.tasks, C15_Completed))

\* the story points of a task as the claim takes them: 1 without a points value
C16_Points(task) == IF task.points.missing THEN 1 ELSE task.points.v

RECURSIVE C16_Sum(_)
C16_Sum(list) == IF list = <<>> THEN 0 ELSE C16_Points(Head(list)) + C16_Sum(Tail(list))

\* C16: over the tasks calculateVelocity counts, totalTasks is their number,
\* totalPoints the sum P of their story points (1 for a task without a points
\* value), averagePerDay = P / D and averagePerWeek = 7 P / D.
C16_TotalsAndAverages ==
    returned.done =>
        LET Counted(task) == countsForVelocity(task, now, args.days)
            counted == SelectSeq(args.tasks, Counted)
            P == C16_Sum(counted)
        IN /\ returned.value.totalTasks = Len(counted)
           /\ returned.value.totalPoints = P
           /\ SameQuotient(returned.value.averagePerDay, Quotient(P, args.days))
           /\ SameQuotient(returned.value.averagePerWeek, Quotient(7 * P, args.days))

-----------------------------------------------------------------------------
(* calculatePRMetrics: the census of a list of pull requests.  A pull request
   is [state, created_at, merged_at, reviews, user]: created_at is a date,
   merged_at is [kind, at] with kind "date" (a date string), "null" (the field
   holds null) or "absent" (the object has no such field), reviews is the list
   of the reviews' submitted_at, and user is [login] with "" for a pull request
   without a user.  The dates of pull requests fall on whole minutes and are
   kept in minutes, so that the means stay within the integers of the model:
   a span of m minutes is m / HourMin hours and m / DayMin days. *)

MinuteMs == 1000 * 60
HourMin == HourMs \div MinuteMs
DayMin == DayMs \div MinuteMs

MergedOn(at) == [kind |-> "date", at |-> at]
MergedNull == [kind |-> "null", at |-> 0]
MergedAbsent == [kind |-> "absent", at |-> 0]

Null == [null |-> TRUE, span |-> 0]
Span(span) == [null |-> FALSE, span |-> span]

\* timeToMerge, kept in minutes: merged ? (merged - created) / day : null
timeToMerge(pr) ==
    IF pr.merged_at.kind = "date" THEN Span(pr.merged_at.at - pr.created_at) ELSE Null

\* timeToFirstReview, kept in minutes: pr.reviews?.[0]?.submitted_at
timeToFirstReview(pr) ==
    IF pr.reviews # <<>> THEN Span(pr.reviews[1] - pr.created_at) ELSE Null

\* pr.merged_at !== null: true of a date and of undefined
mergedAtIsNotNull(pr) == pr.merged_at.kind # "null"
isOpenPR(pr) == pr.state = "open"
isClosedPR(pr) == pr.state = "closed" /\ pr.merged_at.kind = "null"
isReviewedPR(pr) == ~timeToFirstReview(pr).null

\* pr.user?.login || "unknown"
authorOf(pr) == IF pr.user.login = "" THEN "unknown" ELSE pr.user.login

\* x || 0 of a time
OrZero(time) == IF time.null THEN 0 ELSE time.span

RECURSIVE sumTimeToMerge(_)
sumTimeToMerge(prs) ==
    IF prs = <<>> THEN 0 ELSE OrZero(timeToMerge(Head(prs))) + sumTimeToMerge(Tail(prs))

RECURSIVE sumTimeToFirstReview(_)
sumTimeToFirstReview(prs) ==
    IF prs = <<>> THEN 0
    ELSE OrZero(timeToFirstReview(Head(prs))) + sumTimeToFirstReview(Tail(prs))

\* the mean of the merge times of mergedPRs, in days
averageTimeToMerge(mergedPRs) ==
    IF Len(mergedPRs) > 0
    THEN Quotient(sumTimeToMerge(mergedPRs), Len(mergedPRs) * DayMin)
    ELSE Quotient(0, 1)

\* the mean of the review times of reviewedPRs, in hours
averageTimeToFirstReview(reviewedPRs) ==
    IF Len(reviewedPRs) > 0
    THEN Quotient(sumTimeToFirstReview(reviewedPRs), Len(reviewedPRs) * HourMin)
    ELSE Quotient(0, 1)

byAuthor(prs) ==
    [author \in {authorOf(prs[i]) : i \in 1..Len(prs)} |->
        LET By(pr) == authorOf(pr) = author
            Login(pr) == pr.user.login = author
            grouped == SelectSeq(prs, By)
            authorPRs == SelectSeq(prs, Login)
        IN [total |-> Len(grouped),
            open |-> Len(SelectSeq(grouped, isOpenPR)),
            merged |-> Len(SelectSeq(grouped, mergedAtIsNotNull)),
            closed |-> Len(SelectSeq(grouped, isClosedPR)),
            averageTimeToMerge |->
                averageTimeToMerge(SelectSeq(authorPRs, mergedAtIsNotNull)),
            averageTimeToFirstReview |->
                averageTimeToFirstReview(SelectSeq(authorPRs, isReviewedPR))]]

calculatePRMetrics(pullRequests) ==
    IF Len(pullRequests) = 0
    THEN [total |-> 0, open |-> 0, merged |-> 0, closed |-> 0,
          averageTimeToMerge |-> Quotient(0, 1),
          averageTimeToFirstReview |-> Quotient(0, 1),
          byAuthor |-> <<>>]
    ELSE [total |-> Len(pullRequests),
          open |-> Len(SelectSeq(pullRequests, isOpenPR)),
          merged |-> Len(SelectSeq(pullRequests, mergedAtIsNotNull)),
          closed |-> Len(SelectSeq(pullRequests, isClosedPR)),
          averageTimeToMerge |->
              averageTimeToMerge(SelectSeq(pullRequests, mergedAtIsNotNull)),
          averageTimeToFirstReview |->
              averageTimeToFirstReview(SelectSeq(pullRequests, isReviewedPR)),
          byAuthor |-> byAuthor(pullRequests)]

-----------------------------------------------------------------------------
(* SpecPR: one call of calculatePRMetrics on a list of pull requests.  A merged
   pull request is closed and was merged after it was opened. *)

PRLen == 2
PRReviewsLen == 2

PRCreated == (Now - 3 * DayMs) \div MinuteMs
PRMergeDates == {PRCreated + DayMin, PRCreated + 2 * DayMin}
PRReviewDates == {PRCreated + 2 * HourMin, PRCreated + 5 * HourMin}

PRInputs ==
    {pr \in [state : {"open", "closed"},
             created_at : {PRCreated},
             merged_at : {MergedAbsent, MergedNull} \cup {MergedOn(at) : at \in PRMergeDates},
             reviews : ListsUpTo(PRReviewDates, PRReviewsLen),
             user : {[login |-> "ann"], [login |-> ""]}] :
        pr.merged_at.kind = "date" => pr.state = "closed"}

InitPR ==
    /\ HookIdle
    /\ args \in {[fn |-> "calculatePRMetrics", pullRequests |-> l] :
                    l \in ListsUpTo(PRInputs, PRLen)}
    /\ returned = NotReturned

PRMetricsCall ==
    /\ args.fn = "calculatePRMetrics"
    /\ ~returned.done
    /\ returned' = [done |-> TRUE, value |-> calculatePRMetrics(args.pullRequests)]
    /\ UNCHANGED <<hookVars, args>>

NextPR == PRMetricsCall

SpecPR == InitPR /\ [][NextPR]_vars

-----------------------------------------------------------------------------
(* C17, C18: pull-request metrics *)

\* the partition the claim states: merged = has a merge timestamp
C17_Merged(pr) == pr.merged_at.kind = "date"
C17_Open(pr) == pr.state = "open"
C17_Closed(pr) == pr.state = "closed" /\ ~C17_Merged(pr)

C17_Counts(counted, prs) ==
    /\ counted.merged = Len(SelectSeq(prs, C17_Merged))
    /\ counted.open = Len(SelectSeq(prs, C17_Open))
    /\ counted.closed = Len(SelectSeq(prs, C17_Closed))

\* C17: calculatePRMetrics counts a pull request as merged exactly when it has a
\* merge timestamp, as open exactly when its state is open, as closed exactly
\* when its state is closed and it has no merge timestamp, in the totals and per
\* author; one unmerged, unreviewed pull request (merged_at null or absent)
\* gives merged = 0, averageTimeToMerge = 0 and averageTimeToFirstReview = 0.
C17_PartitionByStateAndMerge ==
    returned.done =>
        LET prs == args.pullRequests
            out == returned.value
        IN /\ C17_Counts(out, prs)
           /\ \A author \in DOMAIN out.byAuthor :
                  LET By(pr) == authorOf(pr) = author
                  IN C17_Counts(out.byAuthor[author], SelectSeq(prs, By))
           /\ (Len(prs) = 1 /\ ~C17_Merged(prs[1]) /\ prs[1].reviews = <<>>) =>
                  /\ out.merged = 0
                  /\ out.averageTimeToMerge.num = 0
                  /\ out.averageTimeToFirstReview.num = 0

\* the same partition over the lists in which every pull request carries a
\* merged_at field (a date or null)
C17_PartitionWhenFieldPresent ==
    (returned.done /\ \A i \in 1..Len(args.pullRequests) :
                          args.pullRequests[i].merged_at.kind # "absent") =>
        LET prs == args.pullRequests
            out == returned.value
        IN /\ C17_Counts(out, prs)
           /\ \A author \in DOMAIN out.byAuthor :
                  LET By(pr) == authorOf(pr) = author
                  IN C17_Counts(out.byAuthor[author], SelectSeq(prs, By))

\* the earliest submission among the reviews of a reviewed pull request
C18_Earliest(pr) ==
    CHOOSE at \in {pr.reviews[i] : i \in 1..Len(pr.reviews)} :
        \A i \in 1..Len(pr.reviews) : at <= pr.reviews[i]

C18_Reviewed(pr) == pr.reviews # <<>>

RECURSIVE C18_SumReview(_)
C18_SumReview(prs) ==
    IF prs = <<>> THEN 0
    ELSE (C18_Earliest(Head(prs)) - Head(prs).created_at) + C18_SumReview(Tail(prs))

RECURSIVE C18_SumMerge(_)
C18_SumMerge(prs) ==
    IF prs = <<>> THEN 0
    ELSE (Head(prs).merged_at.at - Head(prs).created_at) + C18_SumMerge(Tail(prs))

C18_Mean(sum, n, unit) == IF n = 0 THEN Quotient(0, 1) ELSE Quotient(sum, n * unit)

\* C18: the timeToFirstReview of a reviewed pull request is the time from its
\* creation to its earliest review, whatever the order of the reviews list, and
\* averageTimeToFirstReview is the mean of these over the reviewed pull requests
\* only.
C18_FirstReviewIsEarliest ==
    returned.done =>
        LET prs == args.pullRequests
            reviewed == SelectSeq(prs, C18_Reviewed)
        IN /\ \A i \in 1..Len(reviewed) :
                  timeToFirstReview(reviewed[i]) =
                      Span(C18_Earliest(reviewed[i]) - reviewed[i].created_at)
           /\ SameQuotient(returned.value.averageTimeToFirstReview,
                           C18_Mean(C18_SumReview(reviewed), Len(reviewed), HourMin))

\* the other half of C18: averageTimeToMerge is the mean of timeToMerge over the
\* merged pull requests only
C18_MergeMeanOverMergedOnly ==
    returned.done =>
        LET merged == SelectSeq(args.pullRequests, C17_Merged)
        IN SameQuotient(returned.value.averageTimeToMerge,
                        C18_Mean(C18_SumMerge(merged), Len(merged), DayMin))

\* the reviews of every pull request are in the order of their submission
C18_ReviewsInOrder ==
    \A i \in 1..Len(args.pullRequests) :
        LET r == args.pullRequests[i].reviews
        IN \A j \in 1..Len(r), k \in 1..Len(r) : j < k => r[j] <= r[k]

\* over the lists whose reviews are in the order of their submission the first
\* review is the earliest one
C18_FirstReviewWhenInOrder ==
    (returned.done /\ C18_ReviewsInOrder) =>
        LET reviewed == SelectSeq(args.pullRequests, C18_Reviewed)
        IN SameQuotient(returned.value.averageTimeToFirstReview,
                        C18_Mean(C18_SumReview(reviewed), Len(reviewed), HourMin))

-----------------------------------------------------------------------------
(* The composite scores.  A number is a quotient [num, den] of integers with
   den > 0, kept in lowest terms, so that the arithmetic of the scores is exact
   (the rounding error of floating point is left out). *)

RECURSIVE Gcd(_, _)
Gcd(a, b) == IF b = 0 THEN a ELSE Gcd(b, a % b)

Abs(n) == IF n < 0 THEN -n ELSE n

Reduce(q) ==
    LET g == Gcd(Abs(q.num), q.den)
    IN Quotient(q.num \div g, q.den \div g)

Whole(n) == Quotient(n, 1)

\* a + b, a * b, a / b (for b > 0), a < b
Plus(a, b) == Reduce(Quotient(a.num * b.den + b.num * a.den, a.den * b.den))
Times(a, b) ==
    LET x == Reduce(Quotient(a.num, b.den))
        y == Reduce(Quotient(b.num, a.den))
    IN Reduce(Quotient(x.num * y.num, x.den * y.den))
Over(a, b) == Times(a, Quotient(b.den, b.num))
Less(a, b) == a.num * b.den < b.num * a.den

Math_min(a, b) == IF Less(b, a) THEN b ELSE a
Math_max(a, b) == IF Less(a, b) THEN b ELSE a

\* a score that is left as it is computed
Math_roundNot(x) == x

\* Math.round: the nearest integer, a half rounded up
Math_round(x) == Whole((2 * x.num + x.den) \div (2 * x.den))

\* the decimal constants of the weights
Tenths(n) == Quotient(n, 10)

\* Math.min(100, Math.max(0, Math.round(score)))
scoreOf(score) == Math_min(Whole(100), Math_max(Whole(0), Math_round(score)))

\* prMetrics.total > 0 ? prMetrics.merged / prMetrics.total : 1
mergeRate(prMetrics) ==
    IF prMetrics.total > 0
    THEN Reduce(Quotient(prMetrics.merged, prMetrics.total))
    ELSE Whole(1)

\* a health score whose blockers reach 0 at 5 blockers, as the quality score's do
calculateTeamHealthScoreFiveBlockers(a) ==
    LET velocityScore == Math_min(Over(a.velocity, Whole(20)), Whole(1))
        blockerScore ==
            Math_max(Whole(0), Plus(Whole(1), Quotient(-a.blockerCount, 5)))
        prReviewScore ==
            IF a.prMetrics.total > 0 /\ a.prMetrics.averageTimeToFirstReview.num > 0
            THEN Math_min(Whole(1), Over(Whole(48), a.prMetrics.averageTimeToFirstReview))
            ELSE Whole(1)
    IN scoreOf(Times(Plus(Plus(Times(velocityScore, Tenths(3)), Times(blockerScore, Tenths(3))),
                          Plus(Times(mergeRate(a.prMetrics), Tenths(2)),
                               Times(prReviewScore, Tenths(2)))),
                     Whole(100)))

\* calculateTeamHealthScore (part_012 lines 469-496)
calculateTeamHealthScore(a) ==
    LET velocityScore == Math_min(Over(a.velocity, Whole(20)), Whole(1))
        blockerScore ==
            Math_max(Whole(0), Plus(Whole(1), Quotient(-a.blockerCount, 10)))
        prMergedScore == mergeRate(a.prMetrics)
        prReviewScore ==
            IF a.prMetrics.total > 0 /\ a.prMetrics.averageTimeToFirstReview.num > 0
            THEN Math_min(Whole(1), Over(Whole(48), a.prMetrics.averageTimeToFirstReview))
            ELSE Whole(1)
        healthScore ==
            Times(Plus(Plus(Times(velocityScore, Tenths(3)), Times(blockerScore, Tenths(3))),
                       Plus(Times(prMergedScore, Tenths(2)), Times(prReviewScore, Tenths(2)))),
                  Whole(100))
    IN scoreOf(healthScore)

\* calculateProductivityScore (part_012 lines 502-512)
calculateProductivityScore(a) ==
    LET velocityScore == Math_min(Over(a.velocity, Whole(30)), Whole(1))
        prThroughputScore == Math_min(Reduce(Quotient(a.prMetrics.merged, 10)), Whole(1))
        commitScore == Math_min(Reduce(Quotient(a.commitMetrics.total, 50)), Whole(1))
        productivityScore ==
            Times(Plus(Plus(Times(velocityScore, Tenths(5)),
                            Times(prThroughputScore, Tenths(3))),
                       Times(commitScore, Tenths(2))),
                  Whole(100))
    IN scoreOf(productivityScore)

\* calculateQualityScore (part_012 lines 518-535)
calculateQualityScore(a) ==
    LET prMergeRate == mergeRate(a.prMetrics)
        prReviewTimeScore ==
            IF a.prMetrics.averageTimeToFirstReview.num > 0
            THEN Math_min(Whole(1), Over(Whole(24), a.prMetrics.averageTimeToFirstReview))
            ELSE Whole(1)
        blockerScore ==
            Math_max(Whole(0), Plus(Whole(1), Quotient(-a.blockerMetrics.totalBlocked, 5)))
        qualityScore ==
            Times(Plus(Plus(Times(prMergeRate, Tenths(4)), Times(prReviewTimeScore, Tenths(4))),
                       Times(blockerScore, Tenths(2))),
                  Whole(100))
    IN scoreOf(qualityScore)

\* calculateMemberProductivityScore (part_012 lines 541-561)
calculateMemberProductivityScore(a) ==
    LET taskCompletionScore ==
            IF a.tasks.total > 0
            THEN Reduce(Quotient(a.tasks.completed,
                                 IF a.tasks.total > 5 THEN a.tasks.total ELSE 5))
            ELSE Whole(0)
        prThroughputScore == Math_min(Reduce(Quotient(a.prMetrics.merged, 5)), Whole(1))
        commitScore == Math_min(Reduce(Quotient(a.commitMetrics.total, 20)), Whole(1))
        productivityScore ==
            Times(Plus(Plus(Times(taskCompletionScore, Tenths(5)),
                            Times(prThroughputScore, Tenths(3))),
                       Times(commitScore, Tenths(2))),
                  Whole(100))
    IN scoreOf(productivityScore)

\* calculateMemberHealthScore (part_012 lines 567-579)
calculateMemberHealthScore(a) ==
    LET taskBlockedScore ==
            IF a.tasks.completed > 0
            THEN Math_max(Whole(0),
                          Plus(Whole(1), Reduce(Quotient(-a.tasks.blocked, a.tasks.completed))))
            ELSE Whole(1)
        prMergeRate == mergeRate(a.prMetrics)
        healthScore ==
            Times(Plus(Times(taskBlockedScore, Tenths(6)), Times(prMergeRate, Tenths(4))),
                  Whole(100))
    IN scoreOf(healthScore)

\* calculateCommitMetrics (part_013 lines 274-291); a commit is the name of its author
commitAuthor(commit) == IF commit = "" THEN "unknown" ELSE commit
calculateCommitMetrics(commits) ==
    IF Len(commits) = 0
    THEN [total |-> 0, byAuthor |-> <<>>]
    ELSE [total |-> Len(commits), byAuthor |-> CountBy(commits, commitAuthor)]

\* pr.reviews.sort((a, b) => new Date(a.submitted_at) - new Date(b.submitted_at)):
\* the array is sorted in place
sortedReviews(pr) == [pr EXCEPT !.reviews = SortSeq(@, LAMBDA a, b : a < b)]

\* the pull requests as calculateCodeReviewStats leaves them (part_012 lines
\* 434-438): the reviews of every reviewed pull request are in order of submission
afterCodeReviewStats(pullRequests) ==
    [i \in 1..Len(pullRequests) |-> sortedReviews(pullRequests[i])]

RECURSIVE sumReviews(_)
sumReviews(prs) == IF prs = <<>> THEN 0 ELSE Len(Head(prs).reviews) + sumReviews(Tail(prs))

\* the time from creation to the first review after the sort, in minutes
RECURSIVE sumReviewTime(_)
sumReviewTime(prs) ==
    IF prs = <<>> THEN 0
    ELSE (sortedReviews(Head(prs)).reviews[1] - Head(prs).created_at) + sumReviewTime(Tail(prs))

\* calculateCodeReviewStats (part_012 lines 414-463); the pull requests carry no
\* comment counts
calculateCodeReviewStats(pullRequests) ==
    LET HasReviews(pr) == Len(pr.reviews) > 0
        prsWithReviews == SelectSeq(pullRequests, HasReviews)
    IN IF Len(pullRequests) = 0
       THEN [totalReviews |-> 0, averageReviewTimeHours |-> Whole(0),
             averageCommentsPerPR |-> Whole(0), reviewCoverage |-> Whole(0)]
       ELSE [totalReviews |-> sumReviews(pullRequests),
             averageReviewTimeHours |->
                 IF Len(prsWithReviews) > 0
                 THEN Quotient(sumReviewTime(prsWithReviews), Len(prsWithReviews) * HourMin)
                 ELSE Whole(0),
             averageCommentsPerPR |-> Whole(0),
             reviewCoverage |-> Quotient(Len(prsWithReviews) * 100, Len(pullRequests))]

\* calculateTeamProductivity (part_012 lines 202-284): the metrics of the
\* calculators and the three scores composed from them
calculateTeamProductivity(params, t, days) ==
    LET velocityMetrics == calculateVelocity(params.tasks, t, days)
        blockerMetrics == calculateBlockerMetrics(params.tasks)
        prMetrics == calculatePRMetrics(params.pullRequests)
        commitMetrics == calculateCommitMetrics(params.commits)
        weekly == Reduce(velocityMetrics.averagePerWeek)
        healthScore ==
            calculateTeamHealthScore([velocity |-> weekly,
                                      blockerCount |-> blockerMetrics.totalBlocked,
                                      prMetrics |-> prMetrics,
                                      commitMetrics |-> commitMetrics])
    IN [tasks |-> [total |-> Len(params.tasks),
                   blocked |-> blockerMetrics.totalBlocked,
                   velocity |-> velocityMetrics,
                   blockers |-> blockerMetrics],
        code |-> [pullRequests |-> prMetrics, commits |-> commitMetrics,
                  codeReviewStats |-> calculateCodeReviewStats(params.pullRequests)],
        scores |->
            [health |-> healthScore,
             productivity |->
                 calculateProductivityScore([velocity |-> weekly,
                                             prMetrics |-> prMetrics,
                                             commitMetrics |-> commitMetrics]),
             quality |->
                 calculateQualityScore([prMetrics |-> prMetrics,
                                        blockerMetrics |-> blockerMetrics])]]

-----------------------------------------------------------------------------
(* SpecScores: one call of one of the five score functions on metrics of any
   size, or one call of calculateTeamProductivity on short lists of tasks,
   pull requests and commits. *)

TeamLen == 1
TeamCommitsLen == 2

\* points per week
ScoreVelocities == {Whole(0), Quotient(7, 2), Whole(20), Whole(1000)}
ScoreBlockers == {0, 3, 10, 1000}
ScoreCommits == {0, 20, 1000}
\* hours to the first review; 0 without a reviewed pull request
ScoreReviewTimes == {Whole(0), Whole(24), Whole(100), Whole(1000)}

\* what calculatePRMetrics returns to the scores: merged never exceeds total
ScorePRMetrics ==
    {m \in [total : {0, 1, 4, 1000}, merged : {0, 3, 1000},
            averageTimeToFirstReview : ScoreReviewTimes] :
        m.merged <= m.total /\ (m.total = 0 => m.averageTimeToFirstReview.num = 0)}

\* the tasks of a member: the completed and the blocked ones are among them
ScoreTasks ==
    {k \in [total : {0, 4, 1000}, completed : {0, 1, 1000}, blocked : {0, 3, 1000}] :
        k.completed + k.blocked <= k.total}

TeamDays == {30}
TeamInputTasks ==
    [status : {StatusObject("Done", ""), StatusObject("Blocked", "")},
     points : {NoPoints, Points(3)},
     date_closed : {NoDate},
     date_updated : {DateField(Now - 2 * DayMs)},
     comments : {<<>>},
     assignees : {<<"ann">>}]
TeamInputPRs ==
    {pr \in PRInputs : pr.user.login = "ann" /\ pr.merged_at.kind # "absent"
                          /\ Len(pr.reviews) <= 1}
TeamInputCommits == {"ann", ""}

ScoreArgs ==
    {[fn |-> "calculateTeamHealthScore", velocity |-> v, blockerCount |-> b,
      prMetrics |-> m, commitMetrics |-> [total |-> 0]] :
         v \in ScoreVelocities, b \in ScoreBlockers, m \in ScorePRMetrics}
    \cup
    {[fn |-> "calculateProductivityScore", velocity |-> v, prMetrics |-> m,
      commitMetrics |-> [total |-> c]] :
         v \in ScoreVelocities, m \in ScorePRMetrics, c \in ScoreCommits}
    \cup
    {[fn |-> "calculateQualityScore", prMetrics |-> m,
      blockerMetrics |-> [totalBlocked |-> b]] :
         m \in ScorePRMetrics, b \in ScoreBlockers}
    \cup
    {[fn |-> "calculateMemberProductivityScore", tasks |-> k, prMetrics |-> m,
      commitMetrics |-> [total |-> c]] :
         k \in ScoreTasks, m \in ScorePRMetrics, c \in ScoreCommits}
    \cup
    {[fn |-> "calculateMemberHealthScore", tasks |-> k, prMetrics |-> m] :
         k \in ScoreTasks, m \in ScorePRMetrics}
    \cup
    {[fn |-> "calculateTeamProductivity", tasks |-> l, pullRequests |-> p,
      commits |-> c, days |-> d] :
         l \in ListsUpTo(TeamInputTasks, TeamLen), p \in ListsUpTo(TeamInputPRs, TeamLen),
         c \in ListsUpTo(TeamInputCommits, TeamCommitsLen), d \in TeamDays}

InitScores ==
    /\ HookIdle
    /\ args \in ScoreArgs
    /\ returned = NotReturned

Returns(fn, value) ==
    /\ args.fn = fn
    /\ ~returned.done
    /\ returned' = [done |-> TRUE, value |-> value]
    /\ UNCHANGED <<hookVars, args>>

TeamHealthScoreCall == Returns("calculateTeamHealthScore", calculateTeamHealthScore(args))
ProductivityScoreCall == Returns("calculateProductivityScore", calculateProductivityScore(args))
QualityScoreCall == Returns("calculateQualityScore", calculateQualityScore(args))
MemberProductivityScoreCall ==
    Returns("calculateMemberProductivityScore", calculateMemberProductivityScore(args))
MemberHealthScoreCall == Returns("calculateMemberHealthScore", calculateMemberHealthScore(args))
\* the call returns the metrics and leaves the reviews of the pull requests sorted
TeamProductivityCall ==
    /\ args.fn = "calculateTeamProductivity"
    /\ ~returned.done
    /\ returned' = [done |-> TRUE,
                    value |-> calculateTeamProductivity(args, now, args.days)]
    /\ args' = [args EXCEPT !.pullRequests = afterCodeReviewStats(@)]
    /\ UNCHANGED hookVars

NextScores ==
    \/ TeamHealthScoreCall
    \/ ProductivityScoreCall
    \/ QualityScoreCall
    \/ MemberProductivityScoreCall
    \/ MemberHealthScoreCall
    \/ TeamProductivityCall

SpecScores == InitScores /\ [][NextScores]_vars

-----------------------------------------------------------------------------
(* C19, C20: composite scores *)

C19_IsScore(x) ==
    /\ x.den > 0
    /\ x.num % x.den = 0
    /\ 0 <= x.num
    /\ x.num <= 100 * x.den

C19_ScoreFunctions ==
    {"calculateTeamHealthScore", "calculateProductivityScore", "calculateQualityScore",
     "calculateMemberProductivityScore", "calculateMemberHealthScore"}

\* C19: whatever the non-negative velocity, blocker count, pull-request counts,
\* review time and commit count, however large, each of the team health,
\* productivity and quality scores and of the member productivity and health
\* scores is an integer from 0 to 100.
C19_ScoresAreIntegersInRange ==
    returned.done =>
        /\ args.fn \in C19_ScoreFunctions => C19_IsScore(returned.value)
        /\ args.fn = "calculateTeamProductivity" =>
               /\ C19_IsScore(returned.value.scores.health)
               /\ C19_IsScore(returned.value.scores.productivity)
               /\ C19_IsScore(returned.value.scores.quality)

\* a thousand commits, a thousand merged pull requests and a velocity of a
\* thousand points a week score 100
C19_Witness ==
    /\ returned.done
    /\ args.fn = "calculateProductivityScore"
    /\ args.commitMetrics.total = 1000
    /\ args.prMetrics.merged = 1000
    /\ args.velocity = Whole(1000)
    /\ returned.value = Whole(100)

\* C20: calculateTeamProductivity on no data (no task, no pull request, no
\* commit) returns a health, a productivity and a quality score that are each
\* the neutral or healthy default, none of them 0.
C20_NoDataIsNotZero ==
    (/\ returned.done
     /\ args.fn = "calculateTeamProductivity"
     /\ args.tasks = <<>> /\ args.pullRequests = <<>> /\ args.commits = <<>>) =>
        /\ returned.value.scores.health.num # 0
        /\ returned.value.scores.productivity.num # 0
        /\ returned.value.scores.quality.num # 0

\* on no data the health score is 70 and the quality score 100
C20_NoDataHealthAndQuality ==
    (/\ returned.done
     /\ args.fn = "calculateTeamProductivity"
     /\ args.tasks = <<>> /\ args.pullRequests = <<>> /\ args.commits = <<>>) =>
        /\ returned.value.scores.health = Whole(70)
        /\ returned.value.scores.quality = Whole(100)

-----------------------------------------------------------------------------
(* C21: the team health formula *)

\* the score of the claim for velocity v, b blockers and pull-request metrics m,
\* the weights taken in hundredths
C21_Health(v, b, m) ==
    LET velocityScore == IF v.num >= 20 * v.den THEN Whole(1) ELSE Quotient(v.num, 20 * v.den)
        blockerScore == IF b >= 10 THEN Whole(0) ELSE Quotient(10 - b, 10)
        rate == IF m.total = 0 THEN Whole(1) ELSE Quotient(m.merged, m.total)
        avg == m.averageTimeToFirstReview
        reviewScore ==
            IF m.total = 0 \/ avg.num = 0 \/ 48 * avg.den >= avg.num
            THEN Whole(1) ELSE Quotient(48 * avg.den, avg.num)
        sum == Plus(Plus(Times(Quotient(30, 1), velocityScore),
                         Times(Quotient(30, 1), blockerScore)),
                    Plus(Times(Quotient(20, 1), rate), Times(Quotient(20, 1), reviewScore)))
        rounded == (2 * sum.num + sum.den) \div (2 * sum.den)
    IN IF rounded > 100 THEN 100 ELSE IF rounded < 0 THEN 0 ELSE rounded

\* C21: calculateTeamHealthScore returns round(100 * (0.3 velocityScore + 0.3
\* blockerScore + 0.2 mergeRate + 0.2 reviewScore)) clamped to 0..100, with
\* velocityScore = min(velocity / 20, 1), blockerScore = max(0, 1 - blockers / 10),
\* mergeRate = merged / total (1 without pull requests) and reviewScore =
\* min(1, 48 / averageTimeToFirstReview) (1 without pull requests or reviews).
C21_HealthIsWeightedSum ==
    (returned.done /\ args.fn = "calculateTeamHealthScore") =>
        returned.value = Whole(C21_Health(args.velocity, args.blockerCount, args.prMetrics))

\* 3.5 points a week, 3 blockers, 3 of 4 pull requests merged, a first review
\* after 100 hours: 100 * (0.0525 + 0.21 + 0.15 + 0.096) = 50.85, a score of 51
C21_Witness ==
    /\ returned.done
    /\ args.fn = "calculateTeamHealthScore"
    /\ args.velocity = Quotient(7, 2)
    /\ args.blockerCount = 3
    /\ args.prMetrics.total = 4 /\ args.prMetrics.merged = 3
    /\ args.prMetrics.averageTimeToFirstReview = Whole(100)
    /\ returned.value = Whole(51)

-----------------------------------------------------------------------------
(* The burnout and happiness scores of a teammate: useBurnoutScore,
   useHappinessScore, and the simple calculation of TeamDashboard.  The data
   hooks are read through what they return: taskMetrics is the record of
   getTaskMetrics without its completionRate, [total, completed, open,
   blocked], and activity the record of getActivityForDateRange,
   [commits, pullRequests]. *)

\* getTaskMetrics: completionRate (useClickUpData.js lines 145-148)
completionRate(taskMetrics) ==
    IF taskMetrics.total > 0
    THEN Reduce(Quotient(taskMetrics.completed * 100, taskMetrics.total))
    ELSE Whole(0)

\* getActivityForDateRange: totalActivity
totalActivity(activity) == activity.commits + activity.pullRequests

Cap(n, top) == IF n > top THEN top ELSE n

\* a level whose buckets start above 70, 50 and 30
burnoutLevelAbove(score) ==
    IF score > 70 THEN "critical"
    ELSE IF score > 50 THEN "high"
    ELSE IF score > 30 THEN "moderate"
    ELSE "low"

\* useBurnoutScore: level (part_005 lines 264-268)
burnoutLevel(score) ==
    IF score >= 70 THEN "critical"
    ELSE IF score >= 50 THEN "high"
    ELSE IF score >= 30 THEN "moderate"
    ELSE "low"

\* the score before its cap: the five factors (part_005 lines 211-262)
burnoutPoints(a) ==
    LET openTasks == a.taskMetrics.open
        activity == totalActivity(a.activity)
        rate == completionRate(a.taskMetrics)
        blockedTasks == a.taskMetrics.blocked
    IN (IF openTasks > 15 THEN 30 ELSE IF openTasks > 10 THEN 20
        ELSE IF openTasks > 5 THEN 10 ELSE 0)
       + (IF activity > 20 THEN 25 ELSE IF activity > 15 THEN 20
          ELSE IF activity > 10 THEN 15 ELSE 0)
       + (IF a.ongoingPRs > 5 THEN 20 ELSE IF a.ongoingPRs > 3 THEN 15 ELSE 0)
       + (IF Less(rate, Whole(30)) THEN 15 ELSE IF Less(rate, Whole(50)) THEN 10 ELSE 0)
       + (IF blockedTasks > 0 THEN blockedTasks * 5 ELSE 0)

\* useBurnoutScore: calculateBurnoutScore (part_005 lines 201-283)
calculateBurnoutScore(a) ==
    IF ~a.teammate
    THEN [score |-> 0, level |-> "low"]
    ELSE [score |-> Cap(burnoutPoints(a), 100), level |-> burnoutLevel(burnoutPoints(a))]

\* a score that is not held within 0..100
boundNot(score) == score

\* Math.max(0, Math.min(100, score)) (part_007 line 203)
bound(score) == IF score < 0 THEN 0 ELSE Cap(score, 100)

\* useHappinessScore: level (part_007 lines 206-225)
happinessLevel(score) ==
    IF score >= 80 THEN "very_happy"
    ELSE IF score >= 65 THEN "happy"
    ELSE IF score >= 45 THEN "neutral"
    ELSE IF score >= 30 THEN "concerned"
    ELSE "unhappy"

\* useHappinessScore: calculateHappinessScore (part_007 lines 124-234)
calculateHappinessScore(a) ==
    IF ~a.teammate \/ ~a.burnoutData.present
    THEN [score |-> 50, level |-> "neutral"]
    ELSE LET burnoutImpact == (a.burnoutData.score * 4) \div 10
             accomplishmentScore ==
                 Cap(a.activity.commits * 2 + a.activity.pullRequests * 3
                         + a.completedTasks * 4, 25)
             rate == completionRate(a.taskMetrics)
             completionBonus ==
                 IF Less(Whole(80), rate) THEN 20
                 ELSE IF Less(Whole(60), rate) THEN 15
                 ELSE IF Less(Whole(40), rate) THEN 10
                 ELSE IF Less(rate, Whole(20)) THEN -10
                 ELSE 0
             blockedPenalty == a.taskMetrics.blocked * 5
             mergeBonus == Cap(a.mergedPRs * 2, 10)
             score == bound(70 - burnoutImpact + accomplishmentScore + completionBonus
                                - blockedPenalty + mergeBonus)
         IN [score |-> score, level |-> happinessLevel(score)]

\* TeamDashboard: burnoutScore and burnoutLevel of a member (lines 183-193)
dashboardBurnoutScore(a) ==
    Cap((IF a.taskMetrics.open > 10 THEN 30 ELSE IF a.taskMetrics.open > 5 THEN 15 ELSE 0)
        + (IF totalActivity(a.activity) > 15 THEN 25
           ELSE IF totalActivity(a.activity) > 10 THEN 15 ELSE 0)
        + a.taskMetrics.blocked * 10, 100)

\* TeamDashboard: happinessScore of a member (lines 196-200), a quotient
dashboardHappinessScore(a) ==
    Math_max(Plus(Plus(Whole(70), Times(Whole(-dashboardBurnoutScore(a)), Tenths(4))),
                  Whole(Cap(a.activity.commits * 2 + a.activity.pullRequests * 3
                                + a.taskMetrics.completed * 4, 25))),
             Whole(0))

\* TeamDashboard: happinessLevel (lines 202-205)
dashboardHappinessLevel(score) ==
    IF ~Less(score, Whole(80)) THEN "very_happy"
    ELSE IF ~Less(score, Whole(65)) THEN "happy"
    ELSE IF ~Less(score, Whole(45)) THEN "neutral"
    ELSE IF ~Less(score, Whole(30)) THEN "concerned"
    ELSE "unhappy"

\* TeamDashboard: burnoutData[memberName] and happinessData[memberName]
\* (lines 207-219)
dashboardMood(a) ==
    [burnout |-> [score |-> dashboardBurnoutScore(a),
                  level |-> burnoutLevel(dashboardBurnoutScore(a))],
     happiness |-> [score |-> Math_round(dashboardHappinessScore(a)).num,
                    level |-> dashboardHappinessLevel(dashboardHappinessScore(a))]]

-----------------------------------------------------------------------------
(* SpecMood: one evaluation of the burnout score, of the happiness score, or
   of the dashboard's pair of scores, for a teammate's metrics *)

MoodTaskMetrics ==
    {k \in [total : {0, 10, 40}, completed : {0, 2, 4, 7, 9},
            open : {0, 6, 11, 16}, blocked : {0, 1, 4, 20}] :
        k.completed + k.open <= k.total /\ k.blocked <= k.total}
MoodActivity == [commits : {0, 6, 11, 16, 21}, pullRequests : {0, 1, 5}]
MoodOngoingPRs == {0, 4, 6}

NoBurnoutData == [present |-> FALSE, score |-> 0, level |-> "low"]
MoodBurnoutData ==
    {NoBurnoutData} \cup
    {[present |-> TRUE, score |-> n, level |-> burnoutLevel(n)] : n \in {0, 30, 55, 100}}
HappyTaskMetrics == {k \in MoodTaskMetrics : k.open = 0}
HappyActivity == {v \in MoodActivity : v.commits \in {0, 6, 21} /\ v.pullRequests <= 1}
HappyCompleted == {0, 2}
HappyMergedPRs == {0, 1, 6}

MoodArgs ==
    {[fn |-> "useBurnoutScore", teammate |-> t, taskMetrics |-> k, activity |-> v,
      ongoingPRs |-> o] :
         t \in BOOLEAN, k \in MoodTaskMetrics, v \in MoodActivity, o \in MoodOngoingPRs}
    \cup
    {[fn |-> "useHappinessScore", teammate |-> t, burnoutData |-> b, taskMetrics |-> k,
      activity |-> v, completedTasks |-> c, mergedPRs |-> m] :
         t \in BOOLEAN, b \in MoodBurnoutData, k \in HappyTaskMetrics,
         v \in HappyActivity, c \in HappyCompleted, m \in HappyMergedPRs}
    \cup
    {[fn |-> "TeamDashboard", taskMetrics |-> k, activity |-> v] :
         k \in MoodTaskMetrics, v \in MoodActivity}

InitMood ==
    /\ HookIdle
    /\ args \in MoodArgs
    /\ returned = NotReturned

BurnoutScoreCall == Returns("useBurnoutScore", calculateBurnoutScore(args))
HappinessScoreCall == Returns("useHappinessScore", calculateHappinessScore(args))
DashboardMoodCall == Returns("TeamDashboard", dashboardMood(args))

NextMood ==
    \/ BurnoutScoreCall
    \/ HappinessScoreCall
    \/ DashboardMoodCall

SpecMood == InitMood /\ [][NextMood]_vars

-----------------------------------------------------------------------------
(* C22, C23: burnout and happiness *)

C22_Bucket(score) ==
    IF score < 30 THEN "low"
    ELSE IF score < 50 THEN "moderate"
    ELSE IF score < 70 THEN "high"
    ELSE "critical"

C22_InBucket(data) ==
    /\ data.score \in 0..100
    /\ data.level = C22_Bucket(data.score)

\* C22: the burnout score is within 0..100 and the level returned with it is the
\* bucket of that score: low below 30, moderate from 30 below 50, high from 50
\* below 70, critical from 70.
C22_BurnoutLevelIsBucket ==
    returned.done =>
        /\ args.fn = "useBurnoutScore" => C22_InBucket(returned.value)
        /\ args.fn = "TeamDashboard" => C22_InBucket(returned.value.burnout)

\* a teammate whose factors add up to more than 100: the score is capped at 100
\* and the level is critical
C22_Witness ==
    /\ returned.done
    /\ args.fn = "useBurnoutScore"
    /\ args.teammate
    /\ burnoutPoints(args) > 100
    /\ returned.value = [score |-> 100, level |-> "critical"]

\* a cut point is met: a score of exactly 30 is moderate
C22_WitnessAtCutPoint ==
    /\ returned.done
    /\ args.fn = "useBurnoutScore"
    /\ returned.value = [score |-> 30, level |-> "moderate"]

C23_Bucket(score) ==
    IF score < 30 THEN "unhappy"
    ELSE IF score < 45 THEN "concerned"
    ELSE IF score < 65 THEN "neutral"
    ELSE IF score < 80 THEN "happy"
    ELSE "very_happy"

C23_InBucket(data) ==
    /\ data.score \in 0..100
    /\ data.level = C23_Bucket(data.score)

\* C23: the happiness score is within 0..100 and the level returned with it is
\* the bucket of that score: unhappy below 30, concerned from 30 below 45,
\* neutral from 45 below 65, happy from 65 below 80, very_happy from 80.
C23_HappinessLevelIsBucket ==
    returned.done =>
        /\ args.fn = "useHappinessScore" => C23_InBucket(returned.value)
        /\ args.fn = "TeamDashboard" => C23_InBucket(returned.value.happiness)

\* a burnt-out teammate with twenty blocked tasks: the sum is far below 0 and the
\* score returned is 0, unhappy
C23_Witness ==
    /\ returned.done
    /\ args.fn = "useHappinessScore"
    /\ args.teammate /\ args.burnoutData.present
    /\ args.burnoutData.score = 100
    /\ args.taskMetrics.blocked = 20
    /\ returned.value = [score |-> 0, level |-> "unhappy"]

-----------------------------------------------------------------------------
(* SpecSnapshot: calculateTeamProductivity called twice on the same snapshot of
   tasks, pull requests and commits; returned keeps the value of the first call
   next to the value of the second. *)

SnapshotPRs == {pr \in PRInputs : pr.user.login = "ann" /\ pr.merged_at.kind # "absent"}

InitSnapshot ==
    /\ HookIdle
    /\ args \in {[fn |-> "calculateTeamProductivity", tasks |-> l, pullRequests |-> p,
                  commits |-> c, days |-> d] :
                    l \in ListsUpTo(TeamInputTasks, TeamLen),
                    p \in ListsUpTo(SnapshotPRs, TeamLen),
                    c \in ListsUpTo(TeamInputCommits, TeamCommitsLen), d \in TeamDays}
    /\ returned = NotReturned

TeamProductivityAgain ==
    /\ args.fn = "calculateTeamProductivity"
    /\ returned.done
    /\ "first" \notin DOMAIN returned
    /\ returned' = [done |-> TRUE,
                    first |-> returned.value,
                    value |-> calculateTeamProductivity(args, now, args.days)]
    /\ args' = [args EXCEPT !.pullRequests = afterCodeReviewStats(@)]
    /\ UNCHANGED hookVars

NextSnapshot ==
    \/ TeamProductivityCall
    \/ TeamProductivityAgain

SpecSnapshot == InitSnapshot /\ [][NextSnapshot]_vars

-----------------------------------------------------------------------------
(* C24: the calculators leave their inputs alone *)

\* C24: calculateTeamProductivity and its calculators have no side effect on
\* their inputs, so a second call on the same snapshot returns the metrics and
\* scores of the first.
C24_SecondCallReturnsTheSame ==
    (returned.done /\ "first" \in DOMAIN returned) => returned.value = returned.first

\* the frame half of C24: no call changes a task, a pull request (the order of
\* its reviews included) or a commit of the input
C24_InputsUnchanged == [][args' = args]_vars

-----------------------------------------------------------------------------
(* C25: guarded denominators *)

\* a quotient is a defined number when its denominator is not 0 (n / 0 is
\* Infinity, or NaN for n = 0)
C25_Defined(q) == q.den # 0

\* C25: no calculator returns an undefined ratio: every division has a guarded
\* denominator, and the velocity averages are defined numbers for every window
\* length the caller passes.
C25_VelocityAveragesAreDefined ==
    returned.done =>
        /\ C25_Defined(returned.value.averagePerDay)
        /\ C25_Defined(returned.value.averagePerWeek)

\* the guarded divisions of the claim: without a merged pull request
\* averageTimeToMerge is 0, without a reviewed one averageTimeToFirstReview is 0
C25_PRAveragesAreGuarded ==
    returned.done =>
        LET prs == args.pullRequests
            out == returned.value
        IN /\ C25_Defined(out.averageTimeToMerge)
           /\ C25_Defined(out.averageTimeToFirstReview)
           /\ Len(SelectSeq(prs, C17_Merged)) = 0 => out.averageTimeToMerge.num = 0
           /\ Len(SelectSeq(prs, C18_Reviewed)) = 0 => out.averageTimeToFirstReview.num = 0

-----------------------------------------------------------------------------
(* C30: the urgency signals of a blocked task *)

C30_HasUrgent(entry) ==
    \E i \in 1..Len(entry.suggestions) : entry.suggestions[i] = "urgent"

\* C30: for every entry of the blocked list, needsFollowUp is true exactly when
\* the priority tier is critical, and exactly when the suggestions contain the
\* urgent follow-up entry.
C30_UrgencySignalsAgree ==
    returned.done =>
        \A i \in 1..Len(returned.value) :
            LET entry == returned.value[i]
            IN /\ entry.needsFollowUp <=> entry.priorityLevel = "critical"
               /\ entry.needsFollowUp <=> C30_HasUrgent(entry)

\* two of the three signals always agree: the tier is critical exactly when the
\* urgent suggestion is made
C30_TierAndSuggestionAgree ==
    returned.done =>
        \A i \in 1..Len(returned.value) :
            returned.value[i].priorityLevel = "critical" <=> C30_HasUrgent(returned.value[i])

-----------------------------------------------------------------------------
(* C28, C29: the snapshot a check reads, and the checks that are skipped *)

\* an interval callback's refresh has completed and its check has run: had the
\* check read the snapshot the refresh produced, and not skipped on it, it would
\* have stored what detectStagnantTasks finds in that snapshot
C28_Step ==
    \A i \in 1..Len(cycles) :
        (/\ Len(cycles') < Len(cycles)
         /\ ~clickUpData'.loading
         /\ CycleCompletesAt(i)) =>
            LET fresh == [cycles[i].c EXCEPT !.data = clickUpData']
            IN ~Skips(fresh) =>
                   /\ lastCheck' = [set |-> TRUE, at |-> now]
                   /\ stagnantTasks' =
                          detectStagnantTasks(clickUpData', now, thresholdHours, thresholdUnit)

\* C28: in every periodic cycle the check that follows a completed data refresh
\* evaluates the task snapshot produced by that refresh, not the snapshot the
\* detector held before the refresh started.
C28_CheckReadsRefreshedSnapshot == [][C28_Step]_vars

\* the conditions under which the claim says a check does nothing
C29_Disabled(c) == ~c.alertsEnabled \/ ~c.data.present \/ c.data.loading

C29_Step ==
    /\ (/\ C29_Disabled(Closure)
        /\ initialTimeout /\ ~initialTimeout' /\ cycles' = cycles
        /\ InitialCheck) =>
           UNCHANGED <<stagnantTasks, lastCheck, batches>>
    /\ \A i \in 1..Len(cycles) :
           (/\ C29_Disabled(cycles[i].c)
            /\ Len(cycles') < Len(cycles)
            /\ CycleCompletesAt(i)) =>
               UNCHANGED <<stagnantTasks, lastCheck, batches>>

-----------------------------------------------------------------------------
(* SpecHealthAlert: useTeamHealthAlert (src/hooks/useTeamHealthAlert.js) *)

\* the clock advances by half a day, this many times
MaxHealthTicks == 4
HalfDayMs == 12 * HourMs

\* line 54
cooldownPeriod == 24 * 60 * 60 * 1000
\* line 254
QUALITY_THRESHOLD == 50

\* !metrics?.healthScore is false: the score is there and is not 0
Truthy(score) == score.defined /\ score.n # 0
\* typeof score === "number" ? score : 0
NumberOf(score) == IF score.defined THEN score.n ELSE 0

\* the NOTIFY_HEALTH effect (lines 165-179) at time t.  The send goes through
\* throttledSend (lines 146-161): its 1 s throttle is shorter than the cooldown
\* and is left out, and the time its then-callback stores is the time line 171
\* has stored already.
notifyHealth(h, t) ==
    IF ~h.enabled \/ ~Truthy(h.healthScore)
    THEN h
    ELSE LET healthScore == NumberOf(h.healthScore)
             marked == [h EXCEPT !.lastAlertTime = t]
         IN IF healthScore < h.healthThreshold /\ t - marked.lastAlertTime > cooldownPeriod
            THEN [marked EXCEPT !.healthAlerts = @ + 1,
                                !.lastHealthAlert = [sent |-> TRUE, at |-> t]]
            ELSE marked

\* the PULL_REQUEST_VELOCITY effect (lines 248-267) at time t
pullRequestVelocity(h, t) ==
    IF ~h.enabled \/ ~Truthy(h.qualityScore)
    THEN h
    ELSE LET healthScore == NumberOf(h.qualityScore)
             marked == [h EXCEPT !.lastAlertTime = t]
         IN IF healthScore < QUALITY_THRESHOLD /\ t - marked.lastAlertTime > cooldownPeriod
            THEN [marked EXCEPT !.qualityAlerts = @ + 1]
            ELSE marked

\* the props of the hook: options.enabled, metrics.healthScore, metrics.qualityScore
HealthProps ==
    [enabled : BOOLEAN,
     healthScore : {NoScore, Score(0), Score(30), Score(50), Score(80)},
     qualityScore : {NoScore, Score(40), Score(60)}]

WithProps(h, props) ==
    [h EXCEPT !.enabled = props.enabled, !.healthScore = props.healthScore,
              !.qualityScore = props.qualityScore]

\* a commit of the hook: the effects whose dependencies changed run, in the order
\* of their declaration
HealthCommit(h, runHealth, runQuality) ==
    LET afterHealth == IF runHealth THEN notifyHealth(h, now) ELSE h
    IN IF runQuality THEN pullRequestVelocity(afterHealth, now) ELSE afterHealth

InitHealthAlert ==
    /\ now = Now
    /\ DetectorIdle
    /\ teamMetrics = TeamMetricsIdle
    /\ healthAlert = HealthAlertIdle
    /\ args = NoArgs
    /\ returned = NotReturned

\* the first render: every effect runs
HealthAlertMount ==
    /\ ~healthAlert.mounted
    /\ \E props \in HealthProps :
          healthAlert' = HealthCommit([WithProps(healthAlert, props) EXCEPT !.mounted = TRUE],
                                      TRUE, TRUE)
    /\ UNCHANGED <<now, detectorVars, teamMetrics, args, returned>>

\* the host renders with other props (dependency lists of lines 180-186, 268-273)
HealthAlertRender ==
    /\ healthAlert.mounted
    /\ \E props \in HealthProps :
          /\ WithProps(healthAlert, props) # healthAlert
          /\ healthAlert' =
                 HealthCommit(WithProps(healthAlert, props),
                              \/ props.healthScore # healthAlert.healthScore
                              \/ props.enabled # healthAlert.enabled,
                              \/ props.qualityScore # healthAlert.qualityScore
                              \/ props.enabled # healthAlert.enabled)
    /\ UNCHANGED <<now, detectorVars, teamMetrics, args, returned>>

\* the saved settings arrive (lines 39-48): the ClickUp token and the Slack channel
\* change, and both effects run again
HealthAlertSettings ==
    /\ healthAlert.mounted
    /\ ~healthAlert.settingsLoaded
    /\ healthAlert' = HealthCommit([healthAlert EXCEPT !.settingsLoaded = TRUE], TRUE, TRUE)
    /\ UNCHANGED <<now, detectorVars, teamMetrics, args, returned>>

\* time passes: half a day
HealthTick ==
    /\ now < Now + MaxHealthTicks * HalfDayMs
    /\ now' = now + HalfDayMs
    /\ UNCHANGED <<detectorVars, teamMetrics, healthAlert, args, returned>>

NextHealthAlert ==
    \/ HealthAlertMount
    \/ HealthAlertRender
    \/ HealthAlertSettings
    \/ HealthTick

SpecHealthAlert == InitHealthAlert /\ [][NextHealthAlert]_vars

\* the step runs the NOTIFY_HEALTH effect
C27_EffectRuns ==
    /\ healthAlert'.mounted
    /\ \/ ~healthAlert.mounted
       \/ healthAlert'.enabled # healthAlert.enabled
       \/ healthAlert'.healthScore # healthAlert.healthScore
       \/ healthAlert'.settingsLoaded # healthAlert.settingsLoaded

\* alerting is enabled, the score is a number below the threshold, and no
\* team-health alert was sent in the 24 hours before
C27_Due ==
    /\ healthAlert'.enabled
    /\ healthAlert'.healthScore.defined
    /\ healthAlert'.healthScore.n < healthAlert'.healthThreshold
    /\ healthAlert.lastHealthAlert.sent =>
           now - healthAlert.lastHealthAlert.at > cooldownPeriod

\* C27: when alerting is enabled, the team health score is a number below the
\* health threshold (a score of 0 included), and no team-health alert has been
\* sent during the preceding 24-hour cooldown, the hook sends a team-health alert.
C27_SendsWhenDue ==
    [][C27_EffectRuns /\ C27_Due =>
           healthAlert'.healthAlerts = healthAlert.healthAlerts + 1]_vars

\* what the hook does instead: it never sends a team-health alert
C27_NeverSends == healthAlert.healthAlerts = 0 /\ healthAlert.qualityAlerts = 0

\* the effect has run more than a day after mount with a score of 30, enabled
C27_RanWhenDue ==
    /\ healthAlert.mounted /\ healthAlert.enabled
    /\ healthAlert.healthScore = Score(30)
    /\ healthAlert.lastAlertTime > Now + cooldownPeriod

-----------------------------------------------------------------------------
(* SpecTeamMetrics: useTeamMetrics (src/hooks/useTeamMetrics.js).  The props are
   fixed at the first render.  clickUpFetches and githubFetches are the calls of
   fetchClickUpData and fetchGitHubData that wait on the network; a ClickUp call
   carries the caller that awaits it ("mount" for the effect's fetchData,
   "refresh" for refreshAll, "none" for refreshClickUp), and continuations are
   the callers whose ClickUp step is over and whose GitHub step has not begun.
   The team member activity (lines 118-165) is left out: neither the two
   fetchers nor the guard of the metrics read it. *)

\* the calls and continuations alive at one time
MaxTeamRuns == 2

\* error.message || fallback
OrMessage(message, fallback) == IF message = "" THEN fallback ELSE message

\* what the network returns
TeamFetchedTasks == ListsUpTo({t \in TeamInputTasks : t.points = Points(3)}, 1)
TeamFetchedPRs ==
    ListsUpTo({pr \in SnapshotPRs : /\ pr.merged_at = MergedOn(PRCreated + DayMin)
                                    /\ Len(pr.reviews) = 2}, 1)
TeamFetchedCommits == ListsUpTo({"ann"}, 1)
\* the message of the error a fetcher throws; "" is an error without one
TeamThrown == {"API error: 500", ""}

\* the metrics memo (lines 168-267): null while a source loads, and otherwise the
\* result of calculateTeamProductivity, which sorts the reviews of the held pull
\* requests in place.  healthMetrics (lines 194-240) adds a field to the result and
\* is left out.
memo(tm, t) ==
    IF tm.clickUpLoading \/ tm.githubLoading
    THEN [tm EXCEPT !.metrics = [null |-> TRUE]]
    ELSE [tm EXCEPT
             !.metrics = [null |-> FALSE,
                          value |-> calculateTeamProductivity(
                                        [tasks |-> tm.clickUpTasks,
                                         pullRequests |-> tm.pullRequests,
                                         commits |-> tm.commits], t, tm.days)],
             !.pullRequests = afterCodeReviewStats(@)]

\* the dependencies of the memo (lines 259-267)
memoDeps(tm) ==
    <<tm.clickUpTasks, tm.pullRequests, tm.commits, tm.clickUpLoading, tm.githubLoading,
      tm.days>>

\* the render that follows a state change
Rendered(old, new, t) == IF memoDeps(new) = memoDeps(old) THEN new ELSE memo(new, t)

\* fetchClickUpData up to its await (lines 48-59), called by caller
startClickUp(tm, caller) ==
    IF ~tm.clickUpConfigured
    THEN [tm EXCEPT !.clickUpError = ErrorOf("Missing ClickUp list ID or token"),
                    !.clickUpLoading = FALSE,
                    !.continuations = IF caller = "none" THEN @ ELSE Append(@, caller)]
    ELSE [tm EXCEPT !.clickUpLoading = TRUE,
                    !.clickUpError = NoError,
                    !.clickUpFetches = Append(@, caller)]

\* fetchGitHubData up to its first await (lines 70-95)
startGitHub(tm) ==
    IF ~tm.githubConfigured
    THEN [tm EXCEPT !.githubError = ErrorOf("Missing GitHub owner, repo, or token"),
                    !.githubLoading = FALSE]
    ELSE [tm EXCEPT !.githubLoading = TRUE,
                    !.githubError = NoError,
                    !.githubFetches = Append(@, "pulls")]

\* the i-th ClickUp call is over: its caller goes on
clickUpSettled(tm, i) ==
    [tm EXCEPT !.clickUpFetches = RemoveAt(@, i),
               !.continuations = IF tm.clickUpFetches[i] = "none"
                                 THEN @ ELSE Append(@, tm.clickUpFetches[i])]

\* catch and finally of fetchClickUpData (lines 61-66)
catchClickUpKeepsLoading(tm, message) ==
    [tm EXCEPT !.clickUpError = ErrorOf(OrMessage(message, "Failed to fetch ClickUp tasks"))]
catchClickUp(tm, message) ==
    [tm EXCEPT !.clickUpError = ErrorOf(OrMessage(message, "Failed to fetch ClickUp tasks")),
               !.clickUpLoading = FALSE]

\* catch and finally of fetchGitHubData (lines 109-114)
catchGitHub(tm, message) ==
    [tm EXCEPT !.githubError = ErrorOf(OrMessage(message, "Failed to fetch GitHub data")),
               !.githubLoading = FALSE]

TeamRuns(tm) == Len(tm.clickUpFetches) + Len(tm.githubFetches) + Len(tm.continuations)

TeamCommit(new) ==
    /\ teamMetrics' = Rendered(teamMetrics, new, now)
    /\ UNCHANGED <<now, detectorVars, healthAlert, args, returned>>

InitTeamMetrics ==
    /\ now = Now
    /\ DetectorIdle
    /\ teamMetrics = TeamMetricsIdle
    /\ healthAlert = HealthAlertIdle
    /\ args = NoArgs
    /\ returned = NotReturned

\* the first render and the first step of its effect (lines 270-292)
TeamMetricsMount ==
    /\ ~teamMetrics.mounted
    /\ \E c \in BOOLEAN, g \in BOOLEAN :
          LET tm == [teamMetrics EXCEPT !.mounted = TRUE, !.clickUpConfigured = c,
                                        !.githubConfigured = g]
          IN TeamCommit(IF c THEN startClickUp(tm, "mount")
                        ELSE [tm EXCEPT !.clickUpLoading = FALSE,
                                        !.continuations = Append(@, "mount")])

\* refreshAll (lines 348-353)
RefreshAll ==
    /\ teamMetrics.mounted
    /\ TeamRuns(teamMetrics) < MaxTeamRuns
    /\ TeamCommit(startClickUp(teamMetrics, "refresh"))

\* refreshClickUp
RefreshClickUp ==
    /\ teamMetrics.mounted
    /\ TeamRuns(teamMetrics) < MaxTeamRuns
    /\ TeamCommit(startClickUp(teamMetrics, "none"))

\* refreshGitHub
RefreshGitHub ==
    /\ teamMetrics.mounted
    /\ TeamRuns(teamMetrics) < MaxTeamRuns
    /\ TeamCommit(startGitHub(teamMetrics))

\* the tasks of the i-th ClickUp call arrive (lines 59-60, 65)
ClickUpArrivesAt(i, tasks) ==
    /\ i \in 1..Len(teamMetrics.clickUpFetches)
    /\ TeamCommit([clickUpSettled(teamMetrics, i) EXCEPT !.clickUpTasks = tasks,
                                                         !.clickUpLoading = FALSE])
ClickUpArrives ==
    \E i \in 1..Len(teamMetrics.clickUpFetches), tasks \in TeamFetchedTasks :
        ClickUpArrivesAt(i, tasks)

\* the i-th ClickUp call fails (lines 61-66)
ClickUpFailsAt(i, message) ==
    /\ i \in 1..Len(teamMetrics.clickUpFetches)
    /\ TeamCommit(catchClickUp(clickUpSettled(teamMetrics, i), message))
ClickUpFails ==
    \E i \in 1..Len(teamMetrics.clickUpFetches), message \in TeamThrown :
        ClickUpFailsAt(i, message)

\* a caller goes on to its GitHub step (lines 294-304, 356-357)
GitHubStepAt(j) ==
    /\ j \in 1..Len(teamMetrics.continuations)
    /\ LET tm == [teamMetrics EXCEPT !.continuations = RemoveAt(@, j)]
       IN TeamCommit(IF teamMetrics.continuations[j] = "mount" /\ ~tm.githubConfigured
                     THEN [tm EXCEPT !.githubLoading = FALSE]
                     ELSE startGitHub(tm))
GitHubStep == \E j \in 1..Len(teamMetrics.continuations) : GitHubStepAt(j)

\* the pull requests of the i-th GitHub call arrive (lines 86-99)
PullRequestsArriveAt(i, prs) ==
    /\ i \in 1..Len(teamMetrics.githubFetches)
    /\ teamMetrics.githubFetches[i] = "pulls"
    /\ TeamCommit([teamMetrics EXCEPT !.pullRequests = prs,
                                      !.githubFetches[i] = "commits"])
PullRequestsArrive ==
    \E i \in 1..Len(teamMetrics.githubFetches), prs \in TeamFetchedPRs :
        PullRequestsArriveAt(i, prs)

\* the commits of the i-th GitHub call arrive (lines 99-108, 113)
CommitsArriveAt(i, list) ==
    /\ i \in 1..Len(teamMetrics.githubFetches)
    /\ teamMetrics.githubFetches[i] = "commits"
    /\ TeamCommit([teamMetrics EXCEPT !.commits = list,
                                      !.githubLoading = FALSE,
                                      !.githubFetches = RemoveAt(@, i)])
CommitsArrive ==
    \E i \in 1..Len(teamMetrics.githubFetches), list \in TeamFetchedCommits :
        CommitsArriveAt(i, list)

\* the i-th GitHub call fails at either fetch (lines 109-114)
GitHubFailsAt(i, message) ==
    /\ i \in 1..Len(teamMetrics.githubFetches)
    /\ TeamCommit(catchGitHub([teamMetrics EXCEPT !.githubFetches = RemoveAt(@, i)], message))
GitHubFails ==
    \E i \in 1..Len(teamMetrics.githubFetches), message \in TeamThrown :
        GitHubFailsAt(i, message)

NextTeamMetrics ==
    \/ TeamMetricsMount
    \/ RefreshAll
    \/ RefreshClickUp
    \/ RefreshGitHub
    \/ ClickUpArrives
    \/ ClickUpFails
    \/ GitHubStep
    \/ PullRequestsArrive
    \/ CommitsArrive
    \/ GitHubFails

SpecTeamMetrics == InitTeamMetrics /\ [][NextTeamMetrics]_vars

\* an error state that holds a message: a string that is not empty
C26_Exposed(error) == error.set /\ error.message \in STRING /\ error.message # ""

\* no source loads: the metrics are there, with their scores, and count the data held
C26_Computed ==
    ~teamMetrics.clickUpLoading /\ ~teamMetrics.githubLoading =>
        /\ ~teamMetrics.metrics.null
        /\ "scores" \in DOMAIN teamMetrics.metrics.value
        /\ DOMAIN teamMetrics.metrics.value.scores = {"health", "productivity", "quality"}
        /\ teamMetrics.metrics.value.tasks.total = Len(teamMetrics.clickUpTasks)
        /\ teamMetrics.metrics.value.code.pullRequests.total = Len(teamMetrics.pullRequests)
        /\ teamMetrics.metrics.value.code.commits.total = Len(teamMetrics.commits)

C26_Step ==
    /\ \A i \in 1..Len(teamMetrics.clickUpFetches), message \in TeamThrown :
           (/\ Len(teamMetrics'.clickUpFetches) < Len(teamMetrics.clickUpFetches)
            /\ ClickUpFailsAt(i, message)) =>
               /\ C26_Exposed(teamMetrics'.clickUpError)
               /\ ~teamMetrics'.clickUpLoading
    /\ \A i \in 1..Len(teamMetrics.githubFetches), message \in TeamThrown :
           (/\ Len(teamMetrics'.githubFetches) < Len(teamMetrics.githubFetches)
            /\ GitHubFailsAt(i, message)) =>
               /\ C26_Exposed(teamMetrics'.githubError)
               /\ ~teamMetrics'.githubLoading
    /\ C26_Computed'

\* C26: when a ClickUp or GitHub fetch fails, the failure is exposed as a string
\* message and the loading flag of that source returns to false; and whenever no
\* source is loading the metrics are computed (not null, with a scores object)
\* from the data held, empty arrays standing in for data that never arrived.
C26_FailureIsContained == [][C26_Step]_vars

\* the only ClickUp fetch failed without a message, the GitHub data arrived, and
\* the metrics are computed over no tasks and one pull request
C26_Witness ==
    /\ teamMetrics.clickUpConfigured
    /\ teamMetrics.clickUpError = ErrorOf("Failed to fetch ClickUp tasks")
    /\ teamMetrics.clickUpTasks = <<>>
    /\ TeamRuns(teamMetrics) = 0
    /\ ~teamMetrics.clickUpLoading /\ ~teamMetrics.githubLoading
    /\ ~teamMetrics.githubError.set
    /\ ~teamMetrics.metrics.null
    /\ teamMetrics.metrics.value.tasks.total = 0
    /\ teamMetrics.metrics.value.code.pullRequests.total = 1

====
